---- MODULE Spec2Model ----
(***************************************************************************)
(* A model of planetlambert/turing: the machine engine (Machine, Move,     *)
(* MoveN), the canonicalizer (NewStandardTable, the Standard Description   *)
(* and the Description Number with its decoder) and the compiler of        *)
(* abbreviated tables (NewAbbreviatedTable).                               *)
(*                                                                         *)
(* A Go string is modelled as the sequence of its characters, each a       *)
(* one-character TLA+ string, so that slicing, searching, splitting and    *)
(* number formatting are computed as the code computes them.               *)
(***************************************************************************)
EXTENDS Integers, Sequences, FiniteSets, TLC

VARIABLES
    input,      \* the MachineInput handed to NewMachine / NewStandardTable
    m,          \* the Machine built from input
    history,    \* the calls made on m since construction, in order
    log,        \* the moves made by the last call, one record per Move
    stdTable,   \* the StandardTable NewStandardTable returns for input
    stdMachine, \* the Machine built from stdTable.MachineInput
    decoded,    \* what NewMachineFromDescriptionNumber returns
    decMachine, \* the Machine built from decoded.MachineInput
    digits,     \* the digit string handed to NewMachineFromDescriptionNumber
    reencoded,  \* the S.D. and D.N. written again from the decoded rows
    compiler,   \* the abbreviatedTable struct of NewAbbreviatedTable
    stack,      \* the activations of interpretMFunction, the innermost last
    cursor,     \* the row toMachineInput has come to
    compiled,   \* the MachineInput NewAbbreviatedTable returns
    argument,   \* what a function called on its own is called with
    result,     \* what that call returned
    backing,    \* the array under the Tape of input, spare capacity included
    peers,      \* the Machines built from the one input, and whose tape is
                \* still a slice of that array
    beaver      \* the locals of busyBeaver

vars == <<input, m, history, log, stdTable, stdMachine, decoded, decMachine,
          digits, reencoded, compiler, stack, cursor, compiled, argument, result,
          backing, peers, beaver>>

\* The state of the compiler of abbreviated tables
Compilation == <<compiler, stack, cursor, compiled>>

\* The state of the calls of single functions and of the machines that are
\* built side by side
Apart == <<argument, result, backing, peers, beaver>>

-----------------------------------------------------------------------------
(* Strings *)

\* s[from:] of Go, from counted from 0
StrFrom(s, from) == SubSeq(s, from + 1, Len(s))

\* strings.Contains(s, sub)
StrContains(s, sub) ==
    \E i \in 0..(Len(s) - Len(sub)) : SubSeq(s, i + 1, i + Len(sub)) = sub

\* slices.Contains(list, x)
SliceContains(list, x) == \E i \in 1..Len(list) : list[i] = x

RECURSIVE Concat(_)
\* strings.Join(list, "")
Concat(list) == IF list = <<>> THEN <<>> ELSE Head(list) \o Concat(Tail(list))

-----------------------------------------------------------------------------
(* Machine engine *)

rightOp == "R"
leftOp == "L"
eraseOp == "E"
printOp == "P"

none == <<" ">>
not == <<"!">>
any == <<"*">>

\* An m-configuration (one row of a table)
MConfiguration(name, symbols, operations, final) ==
    [Name |-> name, Symbols |-> symbols, Operations |-> operations,
     FinalMConfiguration |-> final]

MachineInput(rows, tape, start, possible, noneSymbol) ==
    [MConfigurations |-> rows, Tape |-> tape, StartingMConfiguration |-> start,
     PossibleSymbols |-> possible, NoneSymbol |-> noneSymbol]

NewMachine(in) ==
    [mConfigurations |-> in.MConfigurations,
     currentMConfigurationName |->
        IF Len(in.StartingMConfiguration) = 0
        THEN in.MConfigurations[1].Name
        ELSE in.StartingMConfiguration,
     noneSymbol |-> IF Len(in.NoneSymbol) = 0 THEN none ELSE in.NoneSymbol,
     tape |-> in.Tape,
     scannedSquare |-> 0,
     halted |-> FALSE]

\* The index expression m.tape[i]: a square of the tape when 0 <= i < len,
\* and a run-time panic of the Go program otherwise.
outOfRange == <<"p", "a", "n", "i", "c">>
TapeAt(tape, i) == IF 0 <= i /\ i < Len(tape) THEN tape[i + 1] ELSE outOfRange
TapeSet(tape, i, v) ==
    IF 0 <= i /\ i < Len(tape) THEN [tape EXCEPT ![i + 1] = v] ELSE tape

\* extendTapeIfNeeded with `>` written for `>=`
ExtendTapeIfNeeded_Strict(mc) ==
    LET m1 == IF mc.scannedSquare > Len(mc.tape)
              THEN [mc EXCEPT !.tape = Append(mc.tape, mc.noneSymbol)]
              ELSE mc
    IN IF m1.scannedSquare < 0
       THEN [m1 EXCEPT !.tape = <<m1.noneSymbol>> \o m1.tape,
                       !.scannedSquare = m1.scannedSquare + 1]
       ELSE m1

ExtendTapeIfNeeded(mc) ==
    LET m1 == IF mc.scannedSquare >= Len(mc.tape)
              THEN [mc EXCEPT !.tape = Append(mc.tape, mc.noneSymbol)]
              ELSE mc
    IN IF m1.scannedSquare < 0
       THEN [m1 EXCEPT !.tape = <<m1.noneSymbol>> \o m1.tape,
                       !.scannedSquare = m1.scannedSquare + 1]
       ELSE m1

\* scan: the machine after the extension, and the symbol read
Scan(mc) ==
    LET m1 == ExtendTapeIfNeeded(mc)
    IN [m |-> m1, symbol |-> TapeAt(m1.tape, m1.scannedSquare)]

\* The `!x` entries of a symbol list, without their first character
RECURSIVE NotSymbols(_)
NotSymbols(symbols) ==
    IF symbols = <<>> THEN <<>>
    ELSE IF StrContains(Head(symbols), not)
         THEN <<StrFrom(Head(symbols), 1)>> \o NotSymbols(Tail(symbols))
         ELSE NotSymbols(Tail(symbols))

\* findMConfiguration's test of a row without the check that the scanned
\* symbol is not blank
RowAccepts_BlankIsAny(mc, row, symbol) ==
    \/ SliceContains(row.Symbols, symbol)
    \/ SliceContains(row.Symbols, any)
    \/ LET notSymbols == NotSymbols(row.Symbols)
       IN Len(notSymbols) > 0 /\ ~SliceContains(notSymbols, symbol)

\* The three scenarios under which findMConfiguration returns a row
RowAccepts(mc, row, symbol) ==
    \/ SliceContains(row.Symbols, symbol)
    \/ /\ symbol # mc.noneSymbol
       /\ \/ SliceContains(row.Symbols, any)
          \/ LET notSymbols == NotSymbols(row.Symbols)
             IN Len(notSymbols) > 0 /\ ~SliceContains(notSymbols, symbol)

RECURSIVE FindFrom(_, _, _, _)
FindFrom(mc, name, symbol, i) ==
    IF i > Len(mc.mConfigurations) THEN 0
    ELSE IF mc.mConfigurations[i].Name = name
            /\ RowAccepts(mc, mc.mConfigurations[i], symbol)
         THEN i
         ELSE FindFrom(mc, name, symbol, i + 1)

\* findMConfiguration keeping the last row that accepts instead of returning
\* at the first
FindMConfiguration_Last(mc, name, symbol) ==
    LET hits == { i \in 1..Len(mc.mConfigurations) :
                    /\ mc.mConfigurations[i].Name = name
                    /\ RowAccepts(mc, mc.mConfigurations[i], symbol) }
    IN IF hits = {} THEN 0 ELSE CHOOSE i \in hits : \A j \in hits : j <= i

\* findMConfiguration: the index of the row returned, 0 for shouldHalt
FindMConfiguration(mc, name, symbol) == FindFrom(mc, name, symbol, 1)

\* performOperation printing operation[0:] instead of operation[1:]
ApplyOperation_PrintsCode(mc, operation) ==
    CASE operation[1] = rightOp -> [mc EXCEPT !.scannedSquare = mc.scannedSquare + 1]
      [] operation[1] = leftOp -> [mc EXCEPT !.scannedSquare = mc.scannedSquare - 1]
      [] operation[1] = eraseOp ->
            [mc EXCEPT !.tape = TapeSet(mc.tape, mc.scannedSquare, mc.noneSymbol)]
      [] operation[1] = printOp ->
            [mc EXCEPT !.tape = TapeSet(mc.tape, mc.scannedSquare, operation)]
      [] OTHER -> mc

\* performOperation after its call of extendTapeIfNeeded
ApplyOperation(mc, operation) ==
    CASE operation[1] = rightOp -> [mc EXCEPT !.scannedSquare = mc.scannedSquare + 1]
      [] operation[1] = leftOp -> [mc EXCEPT !.scannedSquare = mc.scannedSquare - 1]
      [] operation[1] = eraseOp ->
            [mc EXCEPT !.tape = TapeSet(mc.tape, mc.scannedSquare, mc.noneSymbol)]
      [] operation[1] = printOp ->
            [mc EXCEPT !.tape = TapeSet(mc.tape, mc.scannedSquare, StrFrom(operation, 1))]
      [] OTHER -> mc

PerformOperation(mc, operation) == ApplyOperation(ExtendTapeIfNeeded(mc), operation)

\* The loop of Move over the row's operations: one record per operation, with
\* the machine at the moment of the access (`at`) and after it (`after`)
RECURSIVE OperationSteps(_, _)
OperationSteps(mc, operations) ==
    IF operations = <<>> THEN <<>>
    ELSE LET at == ExtendTapeIfNeeded(mc)
             after == PerformOperation(mc, Head(operations))
         IN <<[op |-> Head(operations), at |-> at, after |-> after]>>
            \o OperationSteps(after, Tail(operations))

\* Move whose guard on a halted machine clears the flag before returning
MoveRecord_ClearsHalted(mc) ==
    IF mc.halted
    THEN [before |-> mc, ran |-> FALSE, scanned |-> <<>>, at |-> mc, row |-> 0,
          steps |-> <<>>, after |-> [mc EXCEPT !.halted = FALSE]]
    ELSE LET sc == Scan(mc)
             row == FindMConfiguration(sc.m, sc.m.currentMConfigurationName, sc.symbol)
         IN IF row = 0
            THEN [before |-> mc, ran |-> TRUE, scanned |-> sc.symbol, at |-> sc.m,
                  row |-> 0, steps |-> <<>>,
                  after |-> [sc.m EXCEPT !.halted = TRUE]]
            ELSE LET mConfiguration == sc.m.mConfigurations[row]
                     steps == OperationSteps(sc.m, mConfiguration.Operations)
                     last == IF steps = <<>> THEN sc.m ELSE steps[Len(steps)].after
                 IN [before |-> mc, ran |-> TRUE, scanned |-> sc.symbol, at |-> sc.m,
                     row |-> row, steps |-> steps,
                     after |-> [last EXCEPT !.currentMConfigurationName =
                                                mConfiguration.FinalMConfiguration]]

\* Move that, finding no row, returns without halting the machine
MoveRecord_IdlesWithoutRow(mc) ==
    IF mc.halted
    THEN [before |-> mc, ran |-> FALSE, scanned |-> <<>>, at |-> mc, row |-> 0,
          steps |-> <<>>, after |-> mc]
    ELSE LET sc == Scan(mc)
             row == FindMConfiguration(sc.m, sc.m.currentMConfigurationName, sc.symbol)
         IN IF row = 0
            THEN [before |-> mc, ran |-> TRUE, scanned |-> sc.symbol, at |-> sc.m,
                  row |-> 0, steps |-> <<>>, after |-> sc.m]
            ELSE LET mConfiguration == sc.m.mConfigurations[row]
                     steps == OperationSteps(sc.m, mConfiguration.Operations)
                     last == IF steps = <<>> THEN sc.m ELSE steps[Len(steps)].after
                 IN [before |-> mc, ran |-> TRUE, scanned |-> sc.symbol, at |-> sc.m,
                     row |-> row, steps |-> steps,
                     after |-> [last EXCEPT !.currentMConfigurationName =
                                                mConfiguration.FinalMConfiguration]]

\* One call of Move, with what it did on the way
MoveRecord(mc) ==
    IF mc.halted
    THEN [before |-> mc, ran |-> FALSE, scanned |-> <<>>, at |-> mc, row |-> 0,
          steps |-> <<>>, after |-> mc]
    ELSE LET sc == Scan(mc)
             row == FindMConfiguration(sc.m, sc.m.currentMConfigurationName, sc.symbol)
         IN IF row = 0
            THEN [before |-> mc, ran |-> TRUE, scanned |-> sc.symbol, at |-> sc.m,
                  row |-> 0, steps |-> <<>>,
                  after |-> [sc.m EXCEPT !.halted = TRUE]]
            ELSE LET mConfiguration == sc.m.mConfigurations[row]
                     steps == OperationSteps(sc.m, mConfiguration.Operations)
                     last == IF steps = <<>> THEN sc.m ELSE steps[Len(steps)].after
                 IN [before |-> mc, ran |-> TRUE, scanned |-> sc.symbol, at |-> sc.m,
                     row |-> row, steps |-> steps,
                     after |-> [last EXCEPT !.currentMConfigurationName =
                                                mConfiguration.FinalMConfiguration]]

Move(mc) == MoveRecord(mc).after

\* The loop of MoveN from its i-th iteration on: the machine, the value
\* returned and the records of the calls of Move
RECURSIVE MoveNFrom(_, _, _, _)
MoveNFrom(mc, i, n, records) ==
    IF i > n THEN [m |-> mc, ret |-> n, log |-> records]
    ELSE LET rec == MoveRecord(mc)
         IN IF rec.after.halted
            THEN [m |-> rec.after, ret |-> i, log |-> Append(records, rec)]
            ELSE MoveNFrom(rec.after, i + 1, n, Append(records, rec))

\* MoveN with its loop counter starting at 0
MoveN_FromZero(mc, n) == MoveNFrom(mc, 0, n, <<>>)

MoveN(mc, n) == MoveNFrom(mc, 1, n, <<>>)

\* TapeString
TapeString(mc) == Concat(mc.tape)

\* CompleteConfiguration: the squares in order, the name of the current
\* m-configuration written before the square whose index is scannedSquare,
\* or after the last square when scannedSquare is the length of the tape
CompleteConfiguration(mc) ==
    Concat([i \in 1..Len(mc.tape) |->
               (IF i - 1 = mc.scannedSquare THEN mc.currentMConfigurationName ELSE <<>>)
               \o mc.tape[i]])
    \o (IF mc.scannedSquare = Len(mc.tape) THEN mc.currentMConfigurationName ELSE <<>>)

-----------------------------------------------------------------------------
(* Canonicalizer: NewStandardTable *)

mConfigurationNamePrefix == <<"q">>
mConfigurationSymbolPrefix == <<"S">>

Digits == <<"0", "1", "2", "3", "4", "5", "6", "7", "8", "9">>

\* strconv.Itoa, for n >= 0
RECURSIVE Itoa(_)
Itoa(n) == IF n < 10 THEN <<Digits[n + 1]>>
           ELSE Itoa(n \div 10) \o <<Digits[(n % 10) + 1]>>

DigitValue(ch) == CHOOSE v \in 0..9 : Digits[v + 1] = ch
IsDigit(ch) == \E v \in 0..9 : Digits[v + 1] = ch

RECURSIVE AtoiFrom(_, _)
AtoiFrom(s, acc) ==
    IF s = <<>> THEN acc ELSE AtoiFrom(Tail(s), 10 * acc + DigitValue(Head(s)))

\* strconv.Atoi that reads the last digit only
Atoi_LastDigit(s) ==
    IF s # <<>> /\ \A i \in 1..Len(s) : IsDigit(s[i]) THEN DigitValue(s[Len(s)]) ELSE 0

\* strconv.Atoi with its error dropped: 0 when s is not a run of digits
Atoi(s) ==
    IF s # <<>> /\ \A i \in 1..Len(s) : IsDigit(s[i]) THEN AtoiFrom(s, 0) ELSE 0

\* A Go map: m[k] with ok, and m[k] = v
MapHas(map, key) == key \in DOMAIN map
MapPut(map, key, v) ==
    [x \in (DOMAIN map) \cup {key} |-> IF x = key THEN v ELSE map[x]]
emptyMap == [x \in {} |-> <<>>]

\* The standardTableCreator before its first call
NewCreator(in) ==
    [input |-> in, mConfigurationNames |-> emptyMap, namesIsNil |-> TRUE,
     nameCount |-> 0, mConfigurationSymbols |-> emptyMap, symbolCount |-> 0]

\* lazy creation of the name map that leaves the count at 0
InitNames_FromZero(s) ==
    IF s.namesIsNil THEN [s EXCEPT !.namesIsNil = FALSE] ELSE s

\* lazy creation of the name map, which also starts the names at q1
InitNames(s) ==
    IF s.namesIsNil
    THEN [s EXCEPT !.namesIsNil = FALSE, !.nameCount = s.nameCount + 1]
    ELSE s

\* newMConfigurationName: the creator after the call and the name returned
NewMConfigurationName(s, name) ==
    LET s1 == InitNames(s)
    IN IF MapHas(s1.mConfigurationNames, name)
       THEN [s |-> s1, v |-> s1.mConfigurationNames[name]]
       ELSE LET newName == mConfigurationNamePrefix \o Itoa(s1.nameCount)
            IN [s |-> [s1 EXCEPT !.nameCount = s1.nameCount + 1,
                                 !.mConfigurationNames =
                                     MapPut(s1.mConfigurationNames, name, newName)],
                v |-> newName]

\* newHiddenMConfigurationName that does not count the name it gives
NewHiddenMConfigurationName_KeepsCount(s) ==
    LET s1 == InitNames(s)
    IN [s |-> s1, v |-> mConfigurationNamePrefix \o Itoa(s1.nameCount)]

\* newHiddenMConfigurationName
NewHiddenMConfigurationName(s) ==
    LET s1 == InitNames(s)
    IN [s |-> [s1 EXCEPT !.nameCount = s1.nameCount + 1],
        v |-> mConfigurationNamePrefix \o Itoa(s1.nameCount)]

NewMConfigurationSymbol(s, symbol) ==
    IF MapHas(s.mConfigurationSymbols, symbol)
    THEN [s |-> s, v |-> s.mConfigurationSymbols[symbol]]
    ELSE LET newSymbol == mConfigurationSymbolPrefix \o Itoa(s.symbolCount)
         IN [s |-> [s EXCEPT !.symbolCount = s.symbolCount + 1,
                             !.mConfigurationSymbols =
                                 MapPut(s.mConfigurationSymbols, symbol, newSymbol)],
             v |-> newSymbol]

\* expandStandardSymbols, the loop over PossibleSymbols of a `!x` entry
RECURSIVE ExpandNot(_, _, _, _)
ExpandNot(s, possible, notSymbols, symbols) ==
    IF possible = <<>> THEN [s |-> s, v |-> symbols]
    ELSE IF ~SliceContains(notSymbols, Head(possible))
            /\ ~SliceContains(symbols, Head(possible))
         THEN LET r == NewMConfigurationSymbol(s, Head(possible))
              IN ExpandNot(r.s, Tail(possible), notSymbols, Append(symbols, r.v))
         ELSE ExpandNot(s, Tail(possible), notSymbols, symbols)

\* expandStandardSymbols, the loop over PossibleSymbols of a `*` entry
RECURSIVE ExpandAny(_, _, _)
ExpandAny(s, possible, symbols) ==
    IF possible = <<>> THEN [s |-> s, v |-> symbols]
    ELSE LET r == NewMConfigurationSymbol(s, Head(possible))
         IN ExpandAny(r.s, Tail(possible), Append(symbols, r.v))

\* expandStandardSymbols, the second loop over the row's symbols
RECURSIVE ExpandSymbolsFrom(_, _, _, _)
ExpandSymbolsFrom(s, rest, notSymbols, symbols) ==
    IF rest = <<>> THEN [s |-> s, v |-> symbols]
    ELSE LET r == IF StrContains(Head(rest), not)
                  THEN ExpandNot(s, s.input.PossibleSymbols, notSymbols, symbols)
                  ELSE IF Head(rest) = any
                       THEN ExpandAny(s, s.input.PossibleSymbols, symbols)
                       ELSE LET n1 == NewMConfigurationSymbol(s, Head(rest))
                            IN [s |-> n1.s, v |-> Append(symbols, n1.v)]
         IN ExpandSymbolsFrom(r.s, Tail(rest), notSymbols, r.v)

ExpandStandardSymbols(s, originalSymbols) ==
    ExpandSymbolsFrom(s, originalSymbols, NotSymbols(originalSymbols), <<>>)

moveN == <<"N">>

\* expandStandardOperations, the loop from operation i on
RECURSIVE ExpandOperationsFrom(_, _, _, _, _, _)
ExpandOperationsFrom(s, ops, i, lookingForPrint, prints, moves) ==
    IF i > Len(ops) THEN [s |-> s, prints |-> prints, moves |-> moves]
    ELSE LET code == ops[i][1]
             isLast == (i = Len(ops))
         IN IF lookingForPrint
            THEN IF code = printOp \/ code = eraseOp
                 THEN LET r == NewMConfigurationSymbol(
                                  s, IF code = printOp THEN StrFrom(ops[i], 1) ELSE none)
                      IN ExpandOperationsFrom(r.s, ops, i + 1, FALSE,
                             Append(prints, <<printOp>> \o r.v),
                             IF isLast THEN Append(moves, moveN) ELSE moves)
                 ELSE ExpandOperationsFrom(s, ops, i + 1, TRUE,
                          Append(prints, <<printOp>>), Append(moves, <<code>>))
            ELSE ExpandOperationsFrom(s, ops, i + 1, TRUE, prints,
                     Append(moves, IF code = leftOp \/ code = rightOp
                                   THEN <<code>> ELSE moveN))

ExpandStandardOperations(s, originalOperations) ==
    IF Len(originalOperations) = 0
    THEN [s |-> s, prints |-> <<<<printOp>>>>, moves |-> <<moveN>>]
    ELSE ExpandOperationsFrom(s, originalOperations, 1, TRUE, <<>>, <<>>)

\* calculateStandardPrintOperation that leaves the bare print as it is
CalculateStandardPrintOperation_KeepsBare(printOperation, currentSymbol) ==
    printOperation

\* calculateStandardPrintOperation: a bare print prints the scanned symbol
CalculateStandardPrintOperation(printOperation, currentSymbol) ==
    IF printOperation = <<printOp>> THEN <<printOp>> \o currentSymbol
    ELSE printOperation

\* the rows of a hidden m-configuration made for the symbols of
\* PossibleSymbols only, the blank appended to them left out
RECURSIVE HiddenRows_WithoutBlank(_, _, _, _, _, _, _)
HiddenRows_WithoutBlank(s, symbols, name, printOperation, moveOperation, final, rows) ==
    IF Len(symbols) <= 1 THEN [s |-> s, rows |-> rows]
    ELSE LET r == NewMConfigurationSymbol(s, Head(symbols))
         IN HiddenRows_WithoutBlank(r.s, Tail(symbols), name, printOperation,
               moveOperation, final,
               Append(rows, MConfiguration(name, <<r.v>>,
                   <<CalculateStandardPrintOperation(printOperation, r.v), moveOperation>>,
                   final)))

\* standardize, the rows of one hidden m-configuration: one per symbol of
\* PossibleSymbols and none
RECURSIVE HiddenRows(_, _, _, _, _, _, _)
HiddenRows(s, symbols, name, printOperation, moveOperation, final, rows) ==
    IF symbols = <<>> THEN [s |-> s, rows |-> rows]
    ELSE LET r == NewMConfigurationSymbol(s, Head(symbols))
         IN HiddenRows(r.s, Tail(symbols), name, printOperation, moveOperation, final,
               Append(rows, MConfiguration(name, <<r.v>>,
                   <<CalculateStandardPrintOperation(printOperation, r.v), moveOperation>>,
                   final)))

\* standardize, the loop over the print operations of one symbol of one row
RECURSIVE OperationRows(_, _, _, _, _, _, _, _, _)
OperationRows(s, i, nextName, currentSymbol, prints, moves, name, final, rows) ==
    IF i > Len(prints) THEN [s |-> s, rows |-> rows]
    ELSE LET calculatedName == IF i = 1 THEN name ELSE nextName
             isLast == (i = Len(prints))
             h == IF isLast THEN [s |-> s, v |-> final]
                  ELSE NewHiddenMConfigurationName(s)
             newNext == IF isLast THEN nextName ELSE h.v
         IN IF i = 1
            THEN OperationRows(h.s, i + 1, newNext, currentSymbol, prints, moves,
                    name, final,
                    Append(rows, MConfiguration(calculatedName, <<currentSymbol>>,
                        <<CalculateStandardPrintOperation(prints[i], currentSymbol),
                          moves[i]>>, h.v)))
            ELSE LET hr == HiddenRows(h.s, Append(s.input.PossibleSymbols, none),
                                      calculatedName, prints[i], moves[i], h.v, rows)
                 IN OperationRows(hr.s, i + 1, newNext, currentSymbol, prints, moves,
                                  name, final, hr.rows)

\* standardize, the loop over the symbols of one row
RECURSIVE SymbolRows(_, _, _, _, _, _, _)
SymbolRows(s, symbols, prints, moves, name, final, rows) ==
    IF symbols = <<>> THEN [s |-> s, rows |-> rows]
    ELSE LET r == OperationRows(s, 1, <<>>, Head(symbols), prints, moves, name, final, rows)
         IN SymbolRows(r.s, Tail(symbols), prints, moves, name, final, r.rows)

\* standardize, the loop over the rows of the input
RECURSIVE StandardRows(_, _, _)
StandardRows(s, mConfigurations, rows) ==
    IF mConfigurations = <<>> THEN [s |-> s, rows |-> rows]
    ELSE LET mConfiguration == Head(mConfigurations)
             sy == ExpandStandardSymbols(s, mConfiguration.Symbols)
             op == ExpandStandardOperations(sy.s, mConfiguration.Operations)
             nm == NewMConfigurationName(op.s, mConfiguration.Name)
             fn == NewMConfigurationName(nm.s, mConfiguration.FinalMConfiguration)
             r == SymbolRows(fn.s, sy.v, op.prints, op.moves, nm.v, fn.v, rows)
         IN StandardRows(r.s, Tail(mConfigurations), r.rows)

\* newStartingMConfiguration
NewStartingMConfiguration(s) ==
    IF Len(s.input.StartingMConfiguration) = 0 THEN <<>>
    ELSE NewMConfigurationName(s, s.input.StartingMConfiguration).v

\* s.mConfigurationSymbols[square]: the zero value "" for a missing key
SymbolOf(s, square) ==
    IF MapHas(s.mConfigurationSymbols, square) THEN s.mConfigurationSymbols[square]
    ELSE <<>>

\* newTape
NewTape(s) == [i \in 1..Len(s.input.Tape) |-> SymbolOf(s, s.input.Tape[i])]

\* reverseMConfigurationSymbols
ReverseMConfigurationSymbols(s) ==
    LET keys == DOMAIN s.mConfigurationSymbols
        values == { s.mConfigurationSymbols[key] : key \in keys }
    IN [v \in values |-> CHOOSE key \in keys : s.mConfigurationSymbols[key] = v]

\* The orders in which a range over the symbol map can deliver its values
\* (Go leaves the iteration order of a map open)
SymbolOrders(s) ==
    LET values == { s.mConfigurationSymbols[key] : key \in DOMAIN s.mConfigurationSymbols }
        n == Cardinality(values)
    IN { p \in [1..n -> values] : \A i, j \in 1..n : p[i] = p[j] => i = j }

\* sm[square] of TranslateTape: the zero value "" for a missing key
Translate(sm, square) == IF square \in DOMAIN sm THEN sm[square] ELSE <<>>

\* SymbolMap.TranslateTape
TranslateTape(sm, tape) == Concat([i \in 1..Len(tape) |-> Translate(sm, tape[i])])

\* bytes.Repeat([]byte{ch}, n)
Repeat(ch, n) == [i \in 1..n |-> ch]

sdA == "A"
sdC == "C"
sdD == "D"
semicolon == ";"

\* toStandardDescription that closes every record with the semicolon, as the
\* records of the original paper are written, instead of opening it with one
RECURSIVE ToStandardDescription_SemicolonAfter(_)
ToStandardDescription_SemicolonAfter(mConfigurations) ==
    IF mConfigurations = <<>> THEN <<>>
    ELSE LET row == Head(mConfigurations)
         IN <<sdD>> \o Repeat(sdA, Atoi(StrFrom(row.Name, 1)))
            \o <<sdD>> \o Repeat(sdC, Atoi(StrFrom(row.Symbols[1], 1)))
            \o <<sdD>> \o Repeat(sdC, Atoi(StrFrom(row.Operations[1], 2)))
            \o row.Operations[2]
            \o <<sdD>> \o Repeat(sdA, Atoi(StrFrom(row.FinalMConfiguration, 1)))
            \o <<semicolon>>
            \o ToStandardDescription_SemicolonAfter(Tail(mConfigurations))

\* toStandardDescription
RECURSIVE ToStandardDescription(_)
ToStandardDescription(mConfigurations) ==
    IF mConfigurations = <<>> THEN <<>>
    ELSE LET row == Head(mConfigurations)
         IN <<semicolon>>
            \o <<sdD>> \o Repeat(sdA, Atoi(StrFrom(row.Name, 1)))
            \o <<sdD>> \o Repeat(sdC, Atoi(StrFrom(row.Symbols[1], 1)))
            \o <<sdD>> \o Repeat(sdC, Atoi(StrFrom(row.Operations[1], 2)))
            \o row.Operations[2]
            \o <<sdD>> \o Repeat(sdA, Atoi(StrFrom(row.FinalMConfiguration, 1)))
            \o ToStandardDescription(Tail(mConfigurations))

\* sdCharToDNInt[char]: 0 for a character that is no key of the map
SdCharToDNInt(ch) ==
    CASE ch = "A" -> 1 [] ch = "C" -> 2 [] ch = "D" -> 3 [] ch = "L" -> 4
      [] ch = "R" -> 5 [] ch = "N" -> 6 [] ch = ";" -> 7 [] OTHER -> 0

\* dnIntToSDChar[i]: the zero byte for a number that is no key of the map
DnIntToSDChar(i) ==
    CASE i = 1 -> "A" [] i = 2 -> "C" [] i = 3 -> "D" [] i = 4 -> "L"
      [] i = 5 -> "R" [] i = 6 -> "N" [] i = 7 -> ";" [] OTHER -> "NUL"

\* toDescriptionNumber: every number written is below 10, so strconv.Itoa
\* writes one digit for each character of the S.D.
ToDescriptionNumber(sd) == [i \in 1..Len(sd) |-> Itoa(SdCharToDNInt(sd[i]))[1]]

\* standardize; `order` is the order in which the range over the symbol map
\* of newMConfigurationSymbols delivers the new symbols
Standardize(in, order) ==
    LET s0 == NewMConfigurationSymbol(NewCreator(in), none).s
        r == StandardRows(s0, in.MConfigurations, <<>>)
        machineInput == MachineInput(r.rows, NewTape(r.s), NewStartingMConfiguration(r.s),
                                     order, NewMConfigurationSymbol(r.s, none).v)
        sd == ToStandardDescription(machineInput.MConfigurations)
    IN [MachineInput |-> machineInput,
        SymbolMap |-> ReverseMConfigurationSymbols(r.s),
        StandardDescription |-> sd,
        DescriptionNumber |-> ToDescriptionNumber(sd)]

\* The creator at the end of standardize
StandardizeCreator(in) ==
    StandardRows(NewMConfigurationSymbol(NewCreator(in), none).s, in.MConfigurations, <<>>).s

NewStandardTable(in, order) == Standardize(in, order)

-----------------------------------------------------------------------------
(* Decoder: NewMachineFromDescriptionNumber *)

\* The first index from i on at which d does not hold ch (Len(d) + 1 if none)
RECURSIVE SkipRun(_, _, _)
SkipRun(d, i, ch) == IF i <= Len(d) /\ d[i] = ch THEN SkipRun(d, i + 1, ch) ELSE i

Holds(d, i, ch) == i <= Len(d) /\ d[i] = ch

\* One record 731+32*32*[456]31+ from index i: the index after it, 0 if none
RecordEnd(d, i) ==
    IF ~(Holds(d, i, "7") /\ Holds(d, i + 1, "3") /\ Holds(d, i + 2, "1")) THEN 0
    ELSE LET i1 == SkipRun(d, i + 2, "1")
         IN IF ~Holds(d, i1, "3") THEN 0
            ELSE LET i2 == SkipRun(d, i1 + 1, "2")
                 IN IF ~Holds(d, i2, "3") THEN 0
                    ELSE LET i3 == SkipRun(d, i2 + 1, "2")
                         IN IF ~(i3 <= Len(d) /\ d[i3] \in {"4", "5", "6"}
                                 /\ Holds(d, i3 + 1, "3") /\ Holds(d, i3 + 2, "1"))
                            THEN 0
                            ELSE SkipRun(d, i3 + 2, "1")

\* regexp.MatchString("^(?:731+32*32*[456]31+)+$", dn): after a run of 1s
\* only the end of the string or the 7 of a next record can follow, so the
\* records are found without backtracking
RECURSIVE MatchesFrom(_, _)
MatchesFrom(d, i) ==
    LET j == RecordEnd(d, i)
    IN IF j = 0 THEN FALSE
       ELSE IF j > Len(d) THEN TRUE ELSE MatchesFrom(d, j)

\* The pattern without its closing $: one record at the front is enough
Matched_Unanchored(dn) == RecordEnd(dn, 1) # 0

Matched(dn) == MatchesFrom(dn, 1)

\* strings.Split(s, sep) for a separator of one character: the pieces between
\* consecutive occurrences of sep, the two ends counting as occurrences
Split(s, sep) ==
    LET at == { i \in 1..Len(s) : s[i] = sep }
        cut(j) == IF j = 0 THEN 0
                  ELSE IF j = Cardinality(at) + 1 THEN Len(s) + 1
                  ELSE CHOOSE i \in at : Cardinality({ x \in at : x < i }) = j - 1
    IN [j \in 1..(Cardinality(at) + 1) |-> SubSeq(s, cut(j - 1) + 1, cut(j) - 1)]

\* maxCharsRepeated: the length of the longest run of ch in s
MaxCharsRepeated(s, ch) ==
    LET starts == { i \in 1..Len(s) : s[i] = ch /\ (i = 1 \/ s[i - 1] # ch) }
        lengths == { SkipRun(s, i, ch) - i : i \in starts } \cup {0}
    IN CHOOSE n \in lengths : \A other \in lengths : other <= n

\* The row of a section, its move read from the front of the print and move
SectionRow_MoveFromFront(section) ==
    LET subsections == Split(StrFrom(section, 1), sdD)
        printAndMove == subsections[3]
    IN MConfiguration(
          mConfigurationNamePrefix \o Itoa(Len(subsections[1])),
          <<mConfigurationSymbolPrefix \o Itoa(Len(subsections[2]))>>,
          << <<printOp>> \o mConfigurationSymbolPrefix \o Itoa(Len(printAndMove) - 1),
             <<printAndMove[1]>> >>,
          mConfigurationNamePrefix \o Itoa(Len(subsections[Len(subsections)])))

\* The row NewMachineFromDescriptionNumber builds from one section of the S.D.
SectionRow(section) ==
    LET subsections == Split(StrFrom(section, 1), sdD)
        printAndMove == subsections[3]
    IN MConfiguration(
          mConfigurationNamePrefix \o Itoa(Len(subsections[1])),
          <<mConfigurationSymbolPrefix \o Itoa(Len(subsections[2]))>>,
          << <<printOp>> \o mConfigurationSymbolPrefix \o Itoa(Len(printAndMove) - 1),
             <<printAndMove[Len(printAndMove)]>> >>,
          mConfigurationNamePrefix \o Itoa(Len(subsections[Len(subsections)])))

emptyMachineInput == MachineInput(<<>>, <<>>, <<>>, <<>>, <<>>)

\* NewMachineFromDescriptionNumber: err is TRUE when an error is returned
NewMachineFromDescriptionNumber(dn) ==
    IF ~Matched(dn) THEN [MachineInput |-> emptyMachineInput, err |-> TRUE]
    ELSE LET standardDescription == [i \in 1..Len(dn) |-> DnIntToSDChar(Atoi(<<dn[i]>>))]
             sections == Split(StrFrom(standardDescription, 1), semicolon)
             maxC == MaxCharsRepeated(standardDescription, sdC)
         IN [MachineInput |->
                MachineInput([i \in 1..Len(sections) |-> SectionRow(sections[i])],
                             <<>>, <<>>,
                             [i \in 1..(maxC + 1) |-> mConfigurationSymbolPrefix \o Itoa(i - 1)],
                             mConfigurationSymbolPrefix \o Itoa(0)),
             err |-> FALSE]

-----------------------------------------------------------------------------
(* Abbreviated tables: NewAbbreviatedTable *)

functionOpen == "("
functionClose == ")"
functionParamDelimiter == ","

\* strings.Index(s, ch) for a one-character ch
StrIndex(s, ch) ==
    IF \E i \in 1..Len(s) : s[i] = ch
    THEN (CHOOSE i \in 1..Len(s) : s[i] = ch /\ \A j \in 1..(i - 1) : s[j] # ch) - 1
    ELSE -1

\* The loop of parseMFunction without its count of open parentheses: every
\* comma ends a parameter and every space is dropped
RECURSIVE ParseParams_Flat(_, _, _, _, _)
ParseParams_Flat(chars, i, currentParam, recursiveCount, params) ==
    IF i > Len(chars)
    THEN Append(params, IF currentParam = <<>> THEN none ELSE currentParam)
    ELSE LET ch == chars[i]
             written == IF <<ch>> # none /\ ch # functionParamDelimiter
                        THEN Append(currentParam, ch)
                        ELSE currentParam
         IN IF ch = functionParamDelimiter
            THEN ParseParams_Flat(chars, i + 1, <<>>, 0,
                                  Append(params, IF written = <<>> THEN none ELSE written))
            ELSE ParseParams_Flat(chars, i + 1, written, 0, params)

\* parseMFunction, the loop over the characters between the parentheses
RECURSIVE ParseParams(_, _, _, _, _)
ParseParams(chars, i, currentParam, recursiveCount, params) ==
    IF i > Len(chars)
    THEN Append(params, IF currentParam = <<>> THEN none ELSE currentParam)
    ELSE LET ch == chars[i]
             written == IF recursiveCount > 0
                           \/ (<<ch>> # none /\ ch # functionParamDelimiter)
                        THEN Append(currentParam, ch)
                        ELSE currentParam
             opened == IF ch = functionOpen THEN recursiveCount + 1 ELSE recursiveCount
             closed == IF ch = functionClose THEN opened - 1 ELSE opened
         IN IF closed = 0 /\ ch = functionParamDelimiter
            THEN ParseParams(chars, i + 1, <<>>, closed,
                             Append(params, IF written = <<>> THEN none ELSE written))
            ELSE ParseParams(chars, i + 1, written, closed, params)

\* parseMFunction. A name that ends with its opening parenthesis makes the
\* slice of the code panic; the tables compiled here have none
ParseMFunction(mFunction) ==
    LET open == StrIndex(mFunction, functionOpen)
    IN IF open < 0 THEN [name |-> mFunction, params |-> <<>>]
       ELSE [name |-> SubSeq(mFunction, 1, open),
             params |-> ParseParams(SubSeq(mFunction, open + 2, Len(mFunction) - 1),
                                    1, <<>>, 0, <<>>)]

\* strings.Join(list, sep)
RECURSIVE Join(_, _)
Join(list, sep) ==
    IF list = <<>> THEN <<>>
    ELSE IF Len(list) = 1 THEN list[1]
    ELSE list[1] \o <<sep>> \o Join(Tail(list), sep)

\* composeMFunction
ComposeMFunction(name, params) ==
    IF Len(params) > 0
    THEN name \o <<functionOpen>> \o Join(params, functionParamDelimiter) \o <<functionClose>>
    ELSE name

\* createSubstitutionMap: a key that occurs twice keeps its last value
CreateSubstitutionMap(keys, values) ==
    [key \in { keys[i] : i \in 1..Len(keys) } |->
        values[CHOOSE i \in 1..Len(keys) :
                  keys[i] = key /\ \A j \in (i + 1)..Len(keys) : keys[j] # key]]

\* findMFunctions
FindMFunctions(in, name, numParams) ==
    SelectSeq(in.MConfigurations,
              LAMBDA mFunction :
                  LET parsed == ParseMFunction(mFunction.Name)
                  IN name = parsed.name /\ numParams = Len(parsed.params))

\* isSymbolParam
IsSymbolParam(in, symbols, mFunctionParams) ==
    IF Len(symbols) # 1 THEN [symbol |-> <<>>, ok |-> FALSE]
    ELSE LET symbol == symbols[1]
         IN IF StrContains(symbol, not) \/ StrContains(symbol, any)
            THEN [symbol |-> <<>>, ok |-> FALSE]
            ELSE IF ~SliceContains(Append(in.PossibleSymbols, none), symbol)
                    /\ ~SliceContains(mFunctionParams, symbol)
                 THEN [symbol |-> symbol, ok |-> TRUE]
                 ELSE [symbol |-> <<>>, ok |-> FALSE]

\* substituteSymbols that loses the ! of an entry whose name is bound
SubstituteSymbols_DropsNot(mFunctionSymbols, substitutions) ==
    [i \in 1..Len(mFunctionSymbols) |->
        LET mFunctionSymbol == mFunctionSymbols[i]
        IN IF StrContains(mFunctionSymbol, not)
           THEN IF MapHas(substitutions, StrFrom(mFunctionSymbol, 1))
                THEN substitutions[StrFrom(mFunctionSymbol, 1)]
                ELSE mFunctionSymbol
           ELSE IF MapHas(substitutions, mFunctionSymbol)
                THEN substitutions[mFunctionSymbol]
                ELSE mFunctionSymbol]

\* substituteSymbols
SubstituteSymbols(mFunctionSymbols, substitutions) ==
    [i \in 1..Len(mFunctionSymbols) |->
        LET mFunctionSymbol == mFunctionSymbols[i]
        IN IF StrContains(mFunctionSymbol, not)
           THEN IF MapHas(substitutions, StrFrom(mFunctionSymbol, 1))
                THEN not \o substitutions[StrFrom(mFunctionSymbol, 1)]
                ELSE mFunctionSymbol
           ELSE IF MapHas(substitutions, mFunctionSymbol)
                THEN substitutions[mFunctionSymbol]
                ELSE mFunctionSymbol]

\* substituteOperations: the symbol of a print is the one character after P.
\* An empty operation, or a P with nothing after it, makes the code panic; the
\* tables compiled here have none
SubstituteOperations(mFunctionOperations, substitutions) ==
    [i \in 1..Len(mFunctionOperations) |->
        LET mFunctionOperation == mFunctionOperations[i]
        IN IF mFunctionOperation[1] = printOp
           THEN LET mFunctionOperationSymbol == <<mFunctionOperation[2]>>
                IN IF MapHas(substitutions, mFunctionOperationSymbol)
                   THEN <<printOp>> \o substitutions[mFunctionOperationSymbol]
                   ELSE <<printOp>> \o mFunctionOperationSymbol
           ELSE mFunctionOperation]

\* substituteFinalMConfigurationName
SubstituteFinalMConfigurationName(name, substitutions) ==
    IF MapHas(substitutions, name) THEN substitutions[name] ELSE name

\* substituteFinalMConfigurationParams that leaves a parameter that is itself
\* an invocation as it is written
SubstituteFinalMConfigurationParams_Shallow(params, substitutions) ==
    [i \in 1..Len(params) |->
        LET potential == ParseMFunction(params[i])
        IN IF Len(potential.params) = 0
           THEN SubstituteFinalMConfigurationName(potential.name, substitutions)
           ELSE params[i]]

\* substituteFinalMConfigurationParams
RECURSIVE SubstituteFinalMConfigurationParams(_, _)
SubstituteFinalMConfigurationParams(params, substitutions) ==
    [i \in 1..Len(params) |->
        LET potential == ParseMFunction(params[i])
        IN IF Len(potential.params) = 0
           THEN SubstituteFinalMConfigurationName(potential.name, substitutions)
           ELSE ComposeMFunction(potential.name,
                    SubstituteFinalMConfigurationParams(potential.params, substitutions))]

\* The abbreviatedTable before toMachineInput
NewAbbreviatedTableStruct ==
    [mConfigurationCount |-> 0, newMConfigurationNames |-> emptyMap,
     wasAlreadyInterpretedMap |-> emptyMap, newMConfigurations |-> <<>>]

\* abbreviatedTable.newMConfigurationName that gives a new number only to a
\* signature with parameters and lets a name without parameters stand
NewAbbreviatedName_KeepsPlain(at, mFunctionName, mFunctionParams) ==
    LET key == ComposeMFunction(mFunctionName, mFunctionParams)
    IN IF MapHas(at.newMConfigurationNames, key)
       THEN [at |-> at, v |-> at.newMConfigurationNames[key]]
       ELSE LET newName == IF mFunctionParams = <<>> THEN mFunctionName
                           ELSE mConfigurationNamePrefix \o Itoa(at.mConfigurationCount)
            IN [at |-> [at EXCEPT !.mConfigurationCount = at.mConfigurationCount + 1,
                                  !.newMConfigurationNames =
                                      MapPut(at.newMConfigurationNames, key, newName)],
                v |-> newName]

\* newMConfigurationName that does not count the names it gives
NewAbbreviatedName_KeepsCount(at, mFunctionName, mFunctionParams) ==
    LET key == ComposeMFunction(mFunctionName, mFunctionParams)
    IN IF MapHas(at.newMConfigurationNames, key)
       THEN [at |-> at, v |-> at.newMConfigurationNames[key]]
       ELSE LET newName == mConfigurationNamePrefix \o Itoa(at.mConfigurationCount)
            IN [at |-> [at EXCEPT !.newMConfigurationNames =
                                      MapPut(at.newMConfigurationNames, key, newName)],
                v |-> newName]

\* abbreviatedTable.newMConfigurationName: the struct after the call and the
\* name returned
NewAbbreviatedName(at, mFunctionName, mFunctionParams) ==
    LET key == ComposeMFunction(mFunctionName, mFunctionParams)
    IN IF MapHas(at.newMConfigurationNames, key)
       THEN [at |-> at, v |-> at.newMConfigurationNames[key]]
       ELSE LET newName == mConfigurationNamePrefix \o Itoa(at.mConfigurationCount)
            IN [at |-> [at EXCEPT !.mConfigurationCount = at.mConfigurationCount + 1,
                                  !.newMConfigurationNames =
                                      MapPut(at.newMConfigurationNames, key, newName)],
                v |-> newName]

\* wasAlreadyInterpreted that finds no signature interpreted
WasAlreadyInterpreted_Never(at, mFunctionName, mFunctionParams) ==
    FALSE

\* wasAlreadyInterpreted
WasAlreadyInterpreted(at, mFunctionName, mFunctionParams) ==
    MapHas(at.wasAlreadyInterpretedMap, ComposeMFunction(mFunctionName, mFunctionParams))

\* markAsInterpreted
MarkAsInterpreted(at, mFunctionName, mFunctionParams) ==
    [at EXCEPT !.wasAlreadyInterpretedMap =
        MapPut(at.wasAlreadyInterpretedMap,
               ComposeMFunction(mFunctionName, mFunctionParams), TRUE)]

\* saveMConfiguration
SaveMConfiguration(at, mConfiguration) ==
    [at EXCEPT !.newMConfigurations = Append(at.newMConfigurations, mConfiguration)]

-----------------------------------------------------------------------------
(* Inputs of the engine *)

MaxCalls == 3
MaxN == 3

nameB == <<"b">>
nameC == <<"c">>
sym0 == <<"0">>
sym1 == <<"1">>
symX == <<"x">>
underscore == <<"_">>
opR == <<"R">>
opL == <<"L">>
opE == <<"E">>
opP0 == <<"P", "0">>
opP1 == <<"P", "1">>
opPX == <<"P", "x">>

\* Rows that, alone and in pairs, make the tables the engine is run on:
\* literal symbols, blank, `*`, one and several `!x`, empty and long operation
\* lists, moves off both ends of the tape, rows that overlap
EngineRows ==
    { MConfiguration(nameB, <<none>>, <<opP0, opR>>, nameC),
      MConfiguration(nameB, <<any>>, <<opR>>, nameB),
      MConfiguration(nameB, <<not \o sym0>>, <<opE, opL>>, nameC),
      MConfiguration(nameB, <<sym0>>, <<opL, opP1>>, nameB),
      MConfiguration(nameB, <<sym1, none>>, <<opL, opL, opPX>>, nameC),
      MConfiguration(nameC, <<none>>, <<opR, opP1, opL, opL>>, nameB),
      MConfiguration(nameC, <<any, none>>, <<>>, nameB),
      MConfiguration(nameC, <<not \o sym0, not \o sym1>>, <<opP0>>, nameC),
      MConfiguration(nameB, <<underscore>>, <<opP1, opR, opE>>, nameB) }

\* The table of TestMachineExample1, which prints 0 and 1 alternately
nameE == <<"e">>
nameK == <<"k">>
example1 ==
    << MConfiguration(nameB, <<none>>, <<opP0, opR>>, nameC),
       MConfiguration(nameC, <<none>>, <<opR>>, nameE),
       MConfiguration(nameE, <<none>>, <<opP1, opR>>, nameK),
       MConfiguration(nameK, <<none>>, <<opR>>, nameB) >>

\* The table of TestMachineExample1Short
example1Short ==
    << MConfiguration(nameB, <<none>>, <<opP0>>, nameB),
       MConfiguration(nameB, <<sym0>>, <<opR, opR, opP1>>, nameB),
       MConfiguration(nameB, <<sym1>>, <<opR, opR, opP0>>, nameB) >>

\* A table that walks off both ends of the tape
zigzag ==
    << MConfiguration(nameB, <<none>>, <<opL, opP0>>, nameC),
       MConfiguration(nameC, <<any>>, <<opR, opR>>, nameC),
       MConfiguration(nameC, <<none>>, <<opE, opL, opL, opL>>, nameB) >>

EngineTables ==
    { <<r>> : r \in EngineRows } \cup { <<r1, r2>> : r1, r2 \in EngineRows }
    \cup { example1, example1Short, zigzag }

EngineTapes == { <<>>, <<sym0>>, <<sym1, sym0>>, <<symX, none>> }

EngineInputs ==
    { MachineInput(t, tape, start, <<sym0, sym1>>, ns) :
        t \in EngineTables, tape \in EngineTapes, start \in {<<>>, nameC},
        ns \in {<<>>, underscore} }

-----------------------------------------------------------------------------
(* The engine as a state machine: a machine is built, then Move and MoveN   *)
(* are called on it                                                         *)

Init ==
    /\ input \in EngineInputs
    /\ m = NewMachine(input)
    /\ history = <<>>
    /\ log = <<>>
    /\ stdTable = <<>> /\ stdMachine = <<>> /\ decoded = <<>> /\ decMachine = <<>>
    /\ digits = <<>> /\ reencoded = <<>>
    /\ compiler = <<>> /\ stack = <<>> /\ cursor = 0 /\ compiled = <<>>
    /\ argument = <<>> /\ result = <<>> /\ backing = <<>> /\ peers = <<>> /\ beaver = <<>>

MoveCall ==
    /\ Len(history) < MaxCalls
    /\ m' = Move(m)
    /\ log' = <<MoveRecord(m)>>
    /\ history' = Append(history, [call |-> "Move", n |-> 1, ret |-> 0])
    /\ UNCHANGED <<input, stdTable, stdMachine, decoded, decMachine, digits, reencoded, Compilation, Apart>>

MoveNCall(n) ==
    /\ Len(history) < MaxCalls
    /\ LET r == MoveN(m, n)
       IN /\ m' = r.m
          /\ log' = r.log
          /\ history' = Append(history, [call |-> "MoveN", n |-> n, ret |-> r.ret])
    /\ UNCHANGED <<input, stdTable, stdMachine, decoded, decMachine, digits, reencoded, Compilation, Apart>>

Next == MoveCall \/ \E n \in 0..MaxN : MoveNCall(n)

Spec == Init /\ [][Next]_vars

-----------------------------------------------------------------------------
(* The canonicalizer and the decoder at work: a table is standardized, its  *)
(* Description Number is decoded, and the machine of the table, the machine *)
(* of the canonical table and the machine of the decoded table are moved    *)
(* side by side, as the tests of the repository do                          *)

MaxMoves == 5

\* Rows that, alone and in pairs, make the tables that are standardized
StdRows ==
    { MConfiguration(nameB, <<none>>, <<opP0, opR>>, nameC),
      MConfiguration(nameB, <<any>>, <<opR>>, nameB),
      MConfiguration(nameB, <<not \o sym0>>, <<opE, opL>>, nameC),
      MConfiguration(nameB, <<sym0>>, <<opL>>, nameB),
      MConfiguration(nameC, <<none>>, <<opP1>>, nameB),
      MConfiguration(nameC, <<any, none>>, <<>>, nameB),
      MConfiguration(nameC, <<not \o sym0, not \o sym1>>, <<opP0>>, nameC),
      MConfiguration(nameB, <<sym1, none>>, <<opR, opR, opP1>>, nameC),
      MConfiguration(nameC, <<sym0>>, <<opP1, opL, opL>>, nameC),
      MConfiguration(nameC, <<not \o sym1, not \o symX>>, <<opP0, opR>>, nameB) }

\* A table written for a machine whose blank is _
underscoreBlank ==
    << MConfiguration(nameB, <<underscore>>, <<opP0, opR>>, nameC),
       MConfiguration(nameC, <<underscore>>, <<opR>>, nameB) >>

StdTables ==
    { <<r>> : r \in StdRows } \cup { <<r1, r2>> : r1, r2 \in StdRows }
    \cup { example1, example1Short, underscoreBlank }

StdTapes == { <<>>, <<sym0>>, <<sym1, sym0>> }

StdInputs ==
    { MachineInput(t, tape, start, <<sym0, sym1>>, ns) :
        t \in StdTables, tape \in StdTapes, start \in {<<>>, nameC},
        ns \in {<<>>, underscore} }

\* NewMachine indexes MConfigurations[0] when no starting m-configuration is
\* given: a machine can be built only from an input for which that succeeds
Constructible(in) ==
    Len(in.StartingMConfiguration) # 0 \/ Len(in.MConfigurations) > 0

\* A machine that was never built
noMachine ==
    [mConfigurations |-> <<>>, currentMConfigurationName |-> <<>>, noneSymbol |-> none,
     tape |-> <<>>, scannedSquare |-> 0, halted |-> TRUE]

StdInit ==
    /\ input \in StdInputs
    /\ m = NewMachine(input)
    /\ stdTable \in { NewStandardTable(input, order) :
                    order \in SymbolOrders(StandardizeCreator(input)) }
    /\ Constructible(stdTable.MachineInput)
    /\ stdMachine = NewMachine(stdTable.MachineInput)
    /\ digits = stdTable.DescriptionNumber
    /\ decoded = NewMachineFromDescriptionNumber(digits)
    /\ decMachine = IF decoded.err THEN noMachine ELSE NewMachine(decoded.MachineInput)
    /\ history = <<>>
    /\ log = <<>>
    /\ reencoded = <<>>
    /\ compiler = <<>> /\ stack = <<>> /\ cursor = 0 /\ compiled = <<>>
    /\ argument = <<>> /\ result = <<>> /\ backing = <<>> /\ peers = <<>> /\ beaver = <<>>

\* m.Move(), Move() of the canonical machine and Move() of the decoded one
MoveAll ==
    /\ Len(history) < MaxMoves
    /\ m' = Move(m)
    /\ stdMachine' = Move(stdMachine)
    /\ decMachine' = IF decoded.err THEN decMachine ELSE Move(decMachine)
    /\ history' = Append(history, [call |-> "Move", n |-> 1, ret |-> 0])
    /\ UNCHANGED <<input, log, stdTable, decoded, digits, reencoded, Compilation, Apart>>

StdNext == MoveAll

SpecStd == StdInit /\ [][StdNext]_vars

-----------------------------------------------------------------------------
(* The decoder on digit strings of any origin: a string is handed to        *)
(* NewMachineFromDescriptionNumber and, when it is accepted, the decoded    *)
(* rows are written down again                                              *)

MaxRun == 10

\* The digits of one row: 7, 3 1^n, 3 2^s, 3 2^p, the move, 3 1^f
RowDigits(n, s, p, mv, f) ==
    <<"7">> \o <<"3">> \o Repeat("1", n) \o <<"3">> \o Repeat("2", s)
            \o <<"3">> \o Repeat("2", p) \o <<mv>> \o <<"3">> \o Repeat("1", f)

RunLengths == {0, 1, 2, MaxRun}

MoveDigits == {"4", "5", "6"}

LongRows ==
    { RowDigits(n, s, p, mv, f) :
        n \in RunLengths \ {0}, s \in RunLengths, p \in RunLengths,
        mv \in MoveDigits, f \in RunLengths \ {0} }

ShortRows ==
    { RowDigits(n, s, p, mv, 1) : n \in {1, 2}, s \in {0, 1}, p \in {0, 2},
                                  mv \in {"4", "6"} }

\* Strings that are no Description Number: a row cut short, a row with a
\* digit changed, a row after a stray digit, a row before a stray digit, the
\* empty string and the string 1
Damaged ==
    { SubSeq(r, 1, Len(r) - 1) : r \in ShortRows }
    \cup LET row == RowDigits(1, 1, 1, "5", 1)
         IN { [row EXCEPT ![ic[1]] = ic[2]] :
                ic \in { p \in (1..9) \X {"0", "3", "7", "8", "9"} : row[p[1]] # p[2] } }
    \cup { <<c>> \o r : r \in { RowDigits(1, 0, 0, "4", 1) }, c \in {"0", "1", "7"} }
    \cup { r \o <<c>> : r \in { RowDigits(1, 0, 1, "5", 1) }, c \in {"2", "3", "5"} }
    \cup { <<>>, <<"1">> }

DigitStrings ==
    LongRows \cup { r1 \o r2 : r1, r2 \in ShortRows } \cup Damaged

DNInit ==
    /\ digits \in DigitStrings
    /\ decoded = <<>>
    /\ reencoded = <<>>
    /\ input = <<>> /\ m = <<>> /\ history = <<>> /\ log = <<>>
    /\ stdTable = <<>> /\ stdMachine = <<>> /\ decMachine = <<>>
    /\ compiler = <<>> /\ stack = <<>> /\ cursor = 0 /\ compiled = <<>>
    /\ argument = <<>> /\ result = <<>> /\ backing = <<>> /\ peers = <<>> /\ beaver = <<>>

\* NewMachineFromDescriptionNumber(digits)
Decode ==
    /\ decoded = <<>>
    /\ decoded' = NewMachineFromDescriptionNumber(digits)
    /\ UNCHANGED <<input, m, history, log, stdTable, stdMachine, decMachine, digits, reencoded, Compilation, Apart>>

\* toStandardDescription, then toDescriptionNumber, of the decoded rows
Reencode ==
    /\ decoded # <<>>
    /\ ~decoded.err
    /\ reencoded = <<>>
    /\ LET sd == ToStandardDescription(decoded.MachineInput.MConfigurations)
       IN reencoded' = [StandardDescription |-> sd,
                        DescriptionNumber |-> ToDescriptionNumber(sd)]
    /\ UNCHANGED <<input, m, history, log, stdTable, stdMachine, decMachine, digits, decoded, Compilation, Apart>>

DNNext == Decode \/ Reencode

SpecDN == DNInit /\ [][DNNext]_vars

-----------------------------------------------------------------------------
(* The compiler of abbreviated tables at work: toMachineInput interprets    *)
(* the plain rows one after the other, interpretMFunction calls itself for  *)
(* every final m-configuration, and the rows saved are sorted and returned  *)

MaxDepth == 14

\* The example of the guide: b -> f(f(b, 0), 0), f(A, a) prints a and goes to A
guideExample ==
    <<     MConfiguration(<<"b">>, <<<<"*">>>>, <<<<"R">>>>,
                      <<"f", "(", "f", "(", "b", ",", " ", "0", ")", ",", " ", "0", ")">>),
       MConfiguration(<<"f", "(", "A", ",", " ", "a", ")">>, <<<<"*">>>>, <<<<"P", "a">>, <<"R">>>>,
                      <<"A">>) >>

\* A table without m-functions, its two m-configurations calling each other
plainCycle ==
    <<     MConfiguration(<<"b">>, <<<<"0">>>>, <<<<"R">>>>,
                      <<"c">>),
       MConfiguration(<<"b">>, <<<<" ">>>>, <<<<"P", "0">>>>,
                      <<"b">>),
       MConfiguration(<<"c">>, <<<<"*">>, <<" ">>>>, <<<<"L">>>>,
                      <<"b">>) >>

\* An m-function that invokes itself with the parameters it was given
selfInvoking ==
    <<     MConfiguration(<<"b">>, <<<<"*">>, <<" ">>>>, <<<<"R">>>>,
                      <<"f", "(", "x", ",", " ", "c", ")">>),
       MConfiguration(<<"f", "(", "a", ",", " ", "C", ")">>, <<<<"!", "a">>, <<" ">>>>, <<<<"P", "a">>, <<"R">>>>,
                      <<"f", "(", "a", ",", " ", "C", ")">>),
       MConfiguration(<<"f", "(", "a", ",", " ", "C", ")">>, <<<<"a">>>>, <<>>,
                      <<"C">>),
       MConfiguration(<<"c">>, <<<<"*">>>>, <<<<"L">>>>,
                      <<"b">>) >>

\* Two m-functions that invoke each other, swapping their parameters
mutualInvoking ==
    <<     MConfiguration(<<"b">>, <<<<"*">>, <<" ">>>>, <<>>,
                      <<"f", "(", "0", ",", " ", "1", ")">>),
       MConfiguration(<<"f", "(", "a", ",", " ", "c", ")">>, <<<<"*">>, <<" ">>>>, <<<<"P", "a">>, <<"R">>>>,
                      <<"g", "(", "c", ",", " ", "a", ")">>),
       MConfiguration(<<"g", "(", "a", ",", " ", "c", ")">>, <<<<"*">>, <<" ">>>>, <<<<"P", "c">>, <<"R">>>>,
                      <<"f", "(", "c", ",", " ", "a", ")">>) >>

\* An m-function whose row reads the scanned symbol into the name s
symbolReader ==
    <<     MConfiguration(<<"b">>, <<<<"*">>, <<" ">>>>, <<<<"R">>>>,
                      <<"r", "(", "b", ")">>),
       MConfiguration(<<"r", "(", "C", ")">>, <<<<"s">>>>, <<<<"P", "s">>, <<"R">>, <<"P", "s">>>>,
                      <<"w", "(", "C", ",", " ", "s", ")">>),
       MConfiguration(<<"w", "(", "C", ",", " ", "a", ")">>, <<<<"!", "a">>>>, <<<<"P", "a">>>>,
                      <<"C">>),
       MConfiguration(<<"w", "(", "C", ",", " ", "a", ")">>, <<<<"a">>>>, <<<<"R">>>>,
                      <<"w", "(", "C", ",", " ", "a", ")">>) >>

\* ph(b) of the tests: prints b and halts
printAndHalt ==
    <<     MConfiguration(<<"p", "h", "(", "b", ")">>, <<<<"*">>, <<" ">>>>, <<<<"P", "b">>>>,
                      <<"h", "a", "l", "t">>) >>

\* f(C, B, a) of the helper functions: finds the leftmost a
findLeftMost ==
    <<     MConfiguration(<<"f", "(", "C", ",", " ", "B", ",", " ", "a", ")">>, <<<<"e">>>>, <<<<"L">>>>,
                      <<"f", "1", "(", "C", ",", " ", "B", ",", " ", "a", ")">>),
       MConfiguration(<<"f", "(", "C", ",", " ", "B", ",", " ", "a", ")">>, <<<<"!", "e">>, <<" ">>>>, <<<<"L">>>>,
                      <<"f", "(", "C", ",", " ", "B", ",", " ", "a", ")">>),
       MConfiguration(<<"f", "1", "(", "C", ",", " ", "B", ",", " ", "a", ")">>, <<<<"a">>>>, <<>>,
                      <<"C">>),
       MConfiguration(<<"f", "1", "(", "C", ",", " ", "B", ",", " ", "a", ")">>, <<<<"!", "a">>>>, <<<<"R">>>>,
                      <<"f", "1", "(", "C", ",", " ", "B", ",", " ", "a", ")">>),
       MConfiguration(<<"f", "1", "(", "C", ",", " ", "B", ",", " ", "a", ")">>, <<<<" ">>>>, <<<<"R">>>>,
                      <<"f", "2", "(", "C", ",", " ", "B", ",", " ", "a", ")">>),
       MConfiguration(<<"f", "2", "(", "C", ",", " ", "B", ",", " ", "a", ")">>, <<<<"a">>>>, <<>>,
                      <<"C">>),
       MConfiguration(<<"f", "2", "(", "C", ",", " ", "B", ",", " ", "a", ")">>, <<<<"!", "a">>>>, <<<<"R">>>>,
                      <<"f", "1", "(", "C", ",", " ", "B", ",", " ", "a", ")">>),
       MConfiguration(<<"f", "2", "(", "C", ",", " ", "B", ",", " ", "a", ")">>, <<<<" ">>>>, <<<<"R">>>>,
                      <<"B">>) >>

\* e(C, B, a) and e(B, a) of the helper functions: e(B, a) passes itself on
erase ==
    <<     MConfiguration(<<"e", "(", "C", ",", " ", "B", ",", " ", "a", ")">>, <<<<"*">>, <<" ">>>>, <<>>,
                      <<"f", "(", "e", "1", "(", "C", ",", " ", "B", ",", " ", "a", ")", ",", " ", "B", ",", " ", "a", ")">>),
       MConfiguration(<<"e", "1", "(", "C", ",", " ", "B", ",", " ", "a", ")">>, <<<<"*">>, <<" ">>>>, <<<<"E">>>>,
                      <<"C">>),
       MConfiguration(<<"e", "(", "B", ",", " ", "a", ")">>, <<<<"*">>, <<" ">>>>, <<>>,
                      <<"e", "(", "e", "(", "B", ",", " ", "a", ")", ",", " ", "B", ",", " ", "a", ")">>) >>

\* The row of the tests that erases every z
eraseAllTest ==
    <<     MConfiguration(<<"b">>, <<<<"*">>, <<" ">>>>, <<<<"R">>, <<"R">>>>,
                      <<"e", "(", "p", "h", "(", "x", ")", ",", " ", "z", ")">>) >>

eraseAllOf == <<printAndHalt[1]>> \o findLeftMost \o erase \o eraseAllTest

\* An invocation that no definition matches, and one of the wrong arity
undefinedInvocation ==
    <<     MConfiguration(<<"b">>, <<<<"*">>>>, <<<<"R">>>>,
                      <<"z", "z", "(", "x", ")">>),
       MConfiguration(<<"b">>, <<<<" ">>>>, <<<<"R">>>>,
                      <<"f", "(", "x", ")">>),
       MConfiguration(<<"f", "(", "A", ",", " ", "a", ")">>, <<<<"*">>>>, <<<<"P", "a">>>>,
                      <<"A">>) >>

\* An m-function that wraps its parameter on the way back to itself
wrappingItself ==
    <<     MConfiguration(<<"b">>, <<<<"*">>, <<" ">>>>, <<<<"R">>>>,
                      <<"f", "(", "x", ")">>),
       MConfiguration(<<"f", "(", "A", ")">>, <<<<"*">>, <<" ">>>>, <<<<"P", "0">>, <<"R">>>>,
                      <<"f", "(", "g", "(", "A", ")", ")">>) >>

\* Two m-functions, the second of which gives the first its parameter wrapped
wrappingInTurn ==
    <<     MConfiguration(<<"b">>, <<<<"*">>, <<" ">>>>, <<<<"R">>>>,
                      <<"f", "(", "x", ")">>),
       MConfiguration(<<"f", "(", "A", ")">>, <<<<"*">>>>, <<<<"R">>>>,
                      <<"h", "(", "A", ")">>),
       MConfiguration(<<"h", "(", "A", ")">>, <<<<"*">>, <<" ">>>>, <<<<"L">>>>,
                      <<"f", "(", "g", "(", "A", ")", ")">>),
       MConfiguration(<<"g", "(", "A", ")">>, <<<<"*">>>>, <<>>,
                      <<"A">>) >>

\* An m-function two of whose rows read the scanned symbol, each into a name
\* of its own, before a row that reads none
symbolReaderTwice ==
    <<     MConfiguration(<<"b">>, <<<<"*">>, <<" ">>>>, <<<<"R">>>>,
                      <<"r", "(", "b", ",", " ", "1", ")">>),
       MConfiguration(<<"r", "(", "C", ",", " ", "a", ")">>, <<<<"s">>>>, <<<<"P", "s">>>>,
                      <<"C">>),
       MConfiguration(<<"r", "(", "C", ",", " ", "a", ")">>, <<<<"t">>>>, <<<<"R">>, <<"P", "t">>, <<"P", "a">>>>,
                      <<"k", "(", "t", ",", " ", "a", ")">>),
       MConfiguration(<<"r", "(", "C", ",", " ", "a", ")">>, <<<<"!", "a">>, <<"*">>>>, <<<<"E">>, <<"L">>>>,
                      <<"r", "(", "C", ",", " ", "a", ")">>) >>

\* Prints of symbols and of a parameter whose names are longer than one
\* character, as the symbols S0, S1, ... of a canonical table are
longPrints ==
    <<     MConfiguration(<<"b">>, <<<<"*">>, <<" ">>>>, <<<<"P", "S", "1">>, <<"R">>>>,
                      <<"f", "(", "x", "y", ",", " ", "0", ")">>),
       MConfiguration(<<"f", "(", "a", ",", " ", "b", "b", ")">>, <<<<"!", "a">>, <<"b", "b">>, <<"!", "x">>, <<"S", "1">>>>,
                      <<<<"P", "a">>, <<"P", "b", "b">>, <<"E">>, <<"L">>>>,
                      <<"b">>) >>

\* A state whose two rows both accept the blank, before a chain of states of
\* one row each: more rows than maxInsertion are emitted
twoRowsForBlank ==
    <<     MConfiguration(<<"b">>, <<<<" ">>>>, <<<<"P", "0">>>>,
                      <<"c">>),
       MConfiguration(<<"b">>, <<<<" ">>, <<"*">>>>, <<<<"P", "1">>>>,
                      <<"c">>),
       MConfiguration(<<"c">>, <<<<"*">>, <<" ">>>>, <<<<"R">>>>,
                      <<"d">>),
       MConfiguration(<<"d">>, <<<<"*">>, <<" ">>>>, <<<<"R">>>>,
                      <<"e">>),
       MConfiguration(<<"e">>, <<<<"*">>, <<" ">>>>, <<<<"R">>>>,
                      <<"f">>),
       MConfiguration(<<"f">>, <<<<"*">>, <<" ">>>>, <<<<"R">>>>,
                      <<"g">>),
       MConfiguration(<<"g">>, <<<<"*">>, <<" ">>>>, <<<<"R">>>>,
                      <<"h">>),
       MConfiguration(<<"h">>, <<<<"*">>, <<" ">>>>, <<<<"R">>>>,
                      <<"i">>),
       MConfiguration(<<"i">>, <<<<"*">>, <<" ">>>>, <<<<"R">>>>,
                      <<"j">>),
       MConfiguration(<<"j">>, <<<<"*">>, <<" ">>>>, <<<<"R">>>>,
                      <<"k">>),
       MConfiguration(<<"k">>, <<<<"*">>, <<" ">>>>, <<<<"R">>>>,
                      <<"l">>),
       MConfiguration(<<"l">>, <<<<"*">>, <<" ">>>>, <<<<"R">>>>,
                      <<"o">>),
       MConfiguration(<<"o">>, <<<<"*">>, <<" ">>>>, <<<<"R">>>>,
                      <<"h", "a", "l", "t">>) >>

AbbreviatedTables ==
    { guideExample, plainCycle, selfInvoking, mutualInvoking, symbolReader,
      symbolReaderTwice, longPrints, eraseAllOf, undefinedInvocation,
      wrappingItself, wrappingInTurn, twoRowsForBlank }

AbbreviatedInputs ==
    { MachineInput(t, <<>>, start, possible, <<>>) :
        t \in AbbreviatedTables,
        start \in {<<>>, nameB, <<"h", "a", "l", "t">>},
        possible \in {<<sym0>>, <<sym0, sym1>>} }

\* The activation of interpretMFunction(name, params) that has found its
\* m-functions and is about to run the loops over them and over the symbol
\* values, at the first m-function and the first symbol value
NewFrame(in, name, params, newName) ==
    LET mFunctions == FindMFunctions(in, name, Len(params))
    IN [name |-> name, params |-> params, newMConfigurationName |-> newName,
        mFunctions |-> mFunctions, mFunctionIndex |-> 1, symbolIndex |-> 1,
        mFunctionParams |-> IF Len(mFunctions) > 0
                            THEN ParseMFunction(mFunctions[1].Name).params ELSE <<>>,
        calling |-> FALSE]

\* symbolValues that leaves out the blank
SymbolValues_WithoutNone(in, mFunction) ==
    IF IsSymbolParam(in, mFunction.Symbols, ParseMFunction(mFunction.Name).params).ok
    THEN in.PossibleSymbols
    ELSE << <<>> >>

\* symbolValues of interpretMFunction for one m-function
SymbolValues(in, mFunction) ==
    IF IsSymbolParam(in, mFunction.Symbols, ParseMFunction(mFunction.Name).params).ok
    THEN Append(in.PossibleSymbols, none)
    ELSE << <<>> >>

\* One pass of the inner loop of interpretMFunction up to its recursive call:
\* the parameters with the symbol parameter appended, and the name and the
\* parameters interpretMFunction is called with
Resolution(in, frame) ==
    LET mFunction == frame.mFunctions[frame.mFunctionIndex]
        symbolParam == IsSymbolParam(in, mFunction.Symbols,
                                     ParseMFunction(mFunction.Name).params)
        symbolValue == SymbolValues(in, mFunction)[frame.symbolIndex]
        mFunctionParams == IF symbolParam.ok
                           THEN Append(frame.mFunctionParams, symbolParam.symbol)
                           ELSE frame.mFunctionParams
        params == IF symbolParam.ok THEN Append(frame.params, symbolValue)
                  ELSE frame.params
        substitutionMap == CreateSubstitutionMap(mFunctionParams, params)
        final == ParseMFunction(mFunction.FinalMConfiguration)
        substitutedName == SubstituteFinalMConfigurationName(final.name, substitutionMap)
        substitutedParams == SubstituteFinalMConfigurationParams(final.params, substitutionMap)
    IN [mFunctionParams |-> mFunctionParams,
        params |-> params,
        call |-> IF Len(substitutedParams) = 0 THEN ParseMFunction(substitutedName)
                 ELSE [name |-> substitutedName, params |-> substitutedParams]]

\* The rest of the pass, after the recursive call has returned newFinal: the
\* row is saved and the loops move on
SaveAndAdvance(in, at, frame, newFinal) ==
    LET mFunction == frame.mFunctions[frame.mFunctionIndex]
        substitutionMap == CreateSubstitutionMap(frame.mFunctionParams, frame.params)
        saved == SaveMConfiguration(at,
                     MConfiguration(frame.newMConfigurationName,
                                    SubstituteSymbols(mFunction.Symbols, substitutionMap),
                                    SubstituteOperations(mFunction.Operations, substitutionMap),
                                    newFinal))
        moreValues == frame.symbolIndex < Len(SymbolValues(in, mFunction))
        nextIndex == frame.mFunctionIndex + 1
    IN [at |-> saved,
        frame |-> IF moreValues
                  THEN [frame EXCEPT !.symbolIndex = frame.symbolIndex + 1,
                                     !.calling = FALSE]
                  ELSE [frame EXCEPT
                           !.mFunctionIndex = nextIndex,
                           !.symbolIndex = 1,
                           !.mFunctionParams =
                               IF nextIndex <= Len(frame.mFunctions)
                               THEN ParseMFunction(frame.mFunctions[nextIndex].Name).params
                               ELSE <<>>,
                           !.calling = FALSE]]

\* slices.SortFunc orders the rows by the number in their name. Up to
\* maxInsertion rows it sorts by insertion, which keeps rows of one name in
\* the order they were saved in; beyond that the order among rows of one name
\* is not specified
maxInsertion == 12

NameNumber(mConfiguration) == Atoi(StrFrom(mConfiguration.Name, 1))

NameNumbers(rows) == { NameNumber(rows[i]) : i \in 1..Len(rows) }

Least(numbers) == CHOOSE n \in numbers : \A other \in numbers : n <= other

RowsNumbered(rows, n) == SelectSeq(rows, LAMBDA r : NameNumber(r) = n)

RECURSIVE InsertionSorted(_, _)
InsertionSorted(rows, numbers) ==
    IF numbers = {} THEN <<>>
    ELSE RowsNumbered(rows, Least(numbers))
         \o InsertionSorted(rows, numbers \ {Least(numbers)})

GroupOrders(group) ==
    { [i \in 1..Len(group) |-> group[p[i]]] :
        p \in { q \in [1..Len(group) -> 1..Len(group)] :
                  \A i, j \in 1..Len(group) : i # j => q[i] # q[j] } }

RECURSIVE Arrangements(_, _)
Arrangements(rows, numbers) ==
    IF numbers = {} THEN { <<>> }
    ELSE { group \o rest :
             group \in GroupOrders(RowsNumbered(rows, Least(numbers))),
             rest \in Arrangements(rows, numbers \ {Least(numbers)}) }

\* sortedNewMConfigurations: what the sort may leave
SortedNewMConfigurations(at) ==
    IF Len(at.newMConfigurations) <= maxInsertion
    THEN { InsertionSorted(at.newMConfigurations, NameNumbers(at.newMConfigurations)) }
    ELSE Arrangements(at.newMConfigurations, NameNumbers(at.newMConfigurations))

AbbrInit ==
    /\ input \in AbbreviatedInputs
    /\ compiler = NewAbbreviatedTableStruct
    /\ stack = <<>>
    /\ cursor = 1
    /\ compiled = <<>>
    /\ m = <<>> /\ history = <<>> /\ log = <<>>
    /\ stdTable = <<>> /\ stdMachine = <<>> /\ decoded = <<>> /\ decMachine = <<>>
    /\ digits = <<>> /\ reencoded = <<>>
    /\ argument = <<>> /\ result = <<>> /\ backing = <<>> /\ peers = <<>> /\ beaver = <<>>

Elsewhere ==
    <<m, history, log, stdTable, stdMachine, decoded, decMachine, digits, reencoded, Apart>>

\* The innermost activation of interpretMFunction
Top == stack[Len(stack)]

\* The innermost activation is about to call interpretMFunction for the
\* final m-configuration of the row it has come to
AtCall ==
    /\ stack # <<>>
    /\ Top.mFunctionIndex <= Len(Top.mFunctions)
    /\ ~Top.calling

\* The signature that call is made with has been interpreted before
CallIsKnown ==
    LET res == Resolution(input, Top)
    IN WasAlreadyInterpreted(
           NewAbbreviatedName(compiler, res.call.name, res.call.params).at,
           res.call.name, res.call.params)

AtPlainRow ==
    /\ stack = <<>>
    /\ compiled = <<>>
    /\ cursor <= Len(input.MConfigurations)

\* toMachineInput passes over a row that defines an m-function
SkipMFunction ==
    /\ AtPlainRow
    /\ StrContains(input.MConfigurations[cursor].Name, <<functionOpen>>)
    /\ cursor' = cursor + 1
    /\ UNCHANGED <<input, compiler, stack, compiled, Elsewhere>>

\* toMachineInput calls interpretMFunction for a plain row; the call returns
\* at once when the name was interpreted for an earlier row
InterpretPlain ==
    /\ AtPlainRow
    /\ ~StrContains(input.MConfigurations[cursor].Name, <<functionOpen>>)
    /\ LET name == input.MConfigurations[cursor].Name
           named == NewAbbreviatedName(compiler, name, <<>>)
       IN IF WasAlreadyInterpreted(named.at, name, <<>>)
          THEN /\ compiler' = named.at
               /\ cursor' = cursor + 1
               /\ stack' = stack
          ELSE /\ compiler' = MarkAsInterpreted(named.at, name, <<>>)
               /\ stack' = <<NewFrame(input, name, <<>>, named.v)>>
               /\ cursor' = cursor
    /\ UNCHANGED <<input, compiled, Elsewhere>>

\* interpretMFunction calls itself for a final m-configuration whose
\* signature was interpreted before: the call returns the name at once and the
\* row is saved
Reuse ==
    /\ AtCall
    /\ CallIsKnown
    /\ LET res == Resolution(input, Top)
           named == NewAbbreviatedName(compiler, res.call.name, res.call.params)
           saved == SaveAndAdvance(input, named.at,
                        [Top EXCEPT !.mFunctionParams = res.mFunctionParams,
                                    !.params = res.params],
                        named.v)
       IN /\ compiler' = saved.at
          /\ stack' = [stack EXCEPT ![Len(stack)] = saved.frame]
    /\ UNCHANGED <<input, cursor, compiled, Elsewhere>>

\* interpretMFunction calls itself for a final m-configuration whose
\* signature is new: the signature is named and marked, and its m-functions
\* are interpreted in a new activation
Descend ==
    /\ AtCall
    /\ ~CallIsKnown
    /\ Len(stack) < MaxDepth
    /\ LET res == Resolution(input, Top)
           named == NewAbbreviatedName(compiler, res.call.name, res.call.params)
       IN /\ compiler' = MarkAsInterpreted(named.at, res.call.name, res.call.params)
          /\ stack' = Append(
                 [stack EXCEPT ![Len(stack)] =
                     [Top EXCEPT !.mFunctionParams = res.mFunctionParams,
                                 !.params = res.params,
                                 !.calling = TRUE]],
                 NewFrame(input, res.call.name, res.call.params, named.v))
    /\ UNCHANGED <<input, cursor, compiled, Elsewhere>>

\* The innermost activation has gone through its m-functions
AtReturn ==
    /\ stack # <<>>
    /\ Top.mFunctionIndex > Len(Top.mFunctions)

\* interpretMFunction returns the name of its signature: the caller saves its
\* row, or toMachineInput goes on
Return ==
    /\ AtReturn
    /\ LET below == SubSeq(stack, 1, Len(stack) - 1)
       IN IF below = <<>>
          THEN /\ stack' = <<>>
               /\ cursor' = cursor + 1
               /\ compiler' = compiler
          ELSE LET saved == SaveAndAdvance(input, compiler, below[Len(below)],
                                           Top.newMConfigurationName)
               IN /\ compiler' = saved.at
                  /\ stack' = [below EXCEPT ![Len(below)] = saved.frame]
                  /\ cursor' = cursor
    /\ UNCHANGED <<input, compiled, Elsewhere>>

AtEnd ==
    /\ stack = <<>>
    /\ compiled = <<>>
    /\ cursor > Len(input.MConfigurations)

\* toMachineInput has interpreted every plain row: it names the starting
\* m-configuration, sorts the rows saved and returns
Finish ==
    /\ AtEnd
    /\ LET named == IF Len(input.StartingMConfiguration) # 0
                    THEN NewAbbreviatedName(compiler, input.StartingMConfiguration, <<>>)
                    ELSE [at |-> compiler, v |-> <<>>]
       IN \E rows \in SortedNewMConfigurations(named.at) :
             /\ compiler' = [named.at EXCEPT !.newMConfigurations = rows]
             /\ compiled' = MachineInput(rows, input.Tape, named.v,
                                         input.PossibleSymbols, input.NoneSymbol)
    /\ UNCHANGED <<input, cursor, stack, Elsewhere>>

\* NewMachine(NewAbbreviatedTable(input)): a machine is built from the table
\* that was returned
StartMachine ==
    /\ compiled # <<>>
    /\ m = <<>>
    /\ Constructible(compiled)
    /\ m' = NewMachine(compiled)
    /\ UNCHANGED <<input, history, log, stdTable, stdMachine, decoded, decMachine,
                   digits, reencoded, Compilation, Apart>>

\* Move of the machine of the compiled table
RunMove ==
    /\ m # <<>>
    /\ Len(history) < MaxMoves
    /\ m' = Move(m)
    /\ log' = <<MoveRecord(m)>>
    /\ history' = Append(history, [call |-> "Move", n |-> 1, ret |-> 0])
    /\ UNCHANGED <<input, stdTable, stdMachine, decoded, decMachine, digits, reencoded,
                   Compilation, Apart>>

AbbrNext ==
    \/ SkipMFunction \/ InterpretPlain \/ Reuse \/ Descend \/ Return \/ Finish
    \/ StartMachine \/ RunMove

SpecAbbr == AbbrInit /\ [][AbbrNext]_vars

-----------------------------------------------------------------------------
(* Claims about the engine, checked under Spec *)

\* The fields of a machine a caller can observe
Observable(mc) ==
    <<mc.currentMConfigurationName, mc.scannedSquare, mc.halted, mc.tape>>

\* C5: MoveN(a) followed by MoveN(b) leaves the machine with the same current
\* m-configuration, head position, halted flag and tape as one MoveN(a+b) on
\* an identically constructed machine, when neither call halts early.
C5_MoveNComposes ==
    (/\ Len(history) = 2
     /\ history[1].call = "MoveN" /\ history[2].call = "MoveN"
     /\ history[1].ret = history[1].n /\ ~MoveN(NewMachine(input), history[1].n).m.halted
     /\ history[2].ret = history[2].n /\ ~m.halted)
    => Observable(m) = Observable(MoveN(NewMachine(input), history[1].n + history[2].n).m)

C5_Witness ==
    /\ Len(history) = 2
    /\ history[1].call = "MoveN" /\ history[2].call = "MoveN"
    /\ history[1].n >= 1 /\ history[2].n >= 2
    /\ history[1].ret = history[1].n /\ history[2].ret = history[2].n
    /\ ~m.halted
    /\ Len(m.tape) >= 3
    /\ Observable(m) # Observable(MoveN(NewMachine(input), history[1].n).m)

\* C6: once the machine is halted it stays halted, and every later Move or
\* MoveN leaves the tape, the head and the current m-configuration unchanged.
C6_HaltedIsPermanent ==
    [][m.halted => (m'.halted /\ Observable(m') = Observable(m))]_vars

\* a call was made on a machine that a Move without matching row had halted
C6_Witness ==
    /\ Len(history) >= 2
    /\ m.halted
    /\ Len(log) = 1 /\ ~log[1].ran /\ log[1].before.halted

\* What the claim calls a match of a symbol list with the scanned symbol
IsNotEntry(entry) == Len(entry) >= 1 /\ entry[1] = "!"
ListMatches(symbols, symbol, blank) ==
    \/ \E i \in 1..Len(symbols) : symbols[i] = symbol
    \/ /\ symbol # blank
       /\ \/ \E i \in 1..Len(symbols) : symbols[i] = <<"*">>
          \/ /\ \E i \in 1..Len(symbols) : IsNotEntry(symbols[i])
             /\ \A i \in 1..Len(symbols) :
                    IsNotEntry(symbols[i]) => Tail(symbols[i]) # symbol

\* The rows of the current m-configuration that match the scanned square
MatchingRows(rec) ==
    { i \in 1..Len(rec.before.mConfigurations) :
        /\ rec.before.mConfigurations[i].Name = rec.before.currentMConfigurationName
        /\ ListMatches(rec.before.mConfigurations[i].Symbols,
                       TapeAt(rec.at.tape, rec.at.scannedSquare),
                       rec.before.noneSymbol) }

\* C7: the applied row is the earliest matching row of the current
\* m-configuration in table order, and the machine halts exactly when no row
\* of the current m-configuration matches.
C7_FirstMatchingRow ==
    \A k \in 1..Len(log) :
        LET rec == log[k]
        IN rec.ran =>
            /\ (MatchingRows(rec) = {}) <=> (rec.row = 0)
            /\ (MatchingRows(rec) = {}) <=> rec.after.halted
            /\ rec.row # 0 =>
                  /\ rec.row \in MatchingRows(rec)
                  /\ \A j \in MatchingRows(rec) : rec.row <= j

\* two rows match, and the first of them was applied
C7_Witness ==
    \E k \in 1..Len(log) :
        /\ log[k].ran
        /\ Cardinality(MatchingRows(log[k])) = 2
        /\ log[k].row = 1
        /\ log[k].before.mConfigurations[1] # log[k].before.mConfigurations[2]

\* C8: on a blank scanned square a row is selected only if its symbol list
\* contains the machine's blank symbol literally; `*` and `!x` entries never
\* match a blank square.
C8_BlankOnlyLiteral ==
    \A k \in 1..Len(log) :
        LET rec == log[k]
        IN (rec.ran /\ rec.row # 0
            /\ TapeAt(rec.at.tape, rec.at.scannedSquare) = rec.before.noneSymbol)
           => \E i \in 1..Len(rec.before.mConfigurations[rec.row].Symbols) :
                 rec.before.mConfigurations[rec.row].Symbols[i] = rec.before.noneSymbol

\* an overridden blank is scanned, the first row of the m-configuration holds
\* only `*` or `!x` entries and is passed over for a later row listing blank
C8_Witness ==
    \E k \in 1..Len(log) :
        LET rec == log[k]
        IN /\ rec.ran
           /\ rec.before.noneSymbol = underscore
           /\ TapeAt(rec.at.tape, rec.at.scannedSquare) = underscore
           /\ rec.row = 2
           /\ rec.before.mConfigurations[1].Name = rec.before.currentMConfigurationName
           /\ rec.before.mConfigurations[1].Symbols \in {<<any>>, <<not \o sym0>>}

\* The machine at every point of one Move, in order: before the call, at the
\* scan, and at and after each operation
RECURSIVE StepSnapshots(_)
StepSnapshots(steps) ==
    IF steps = <<>> THEN <<>>
    ELSE <<Head(steps).at, Head(steps).after>> \o StepSnapshots(Tail(steps))
Snapshots(rec) == <<rec.before, rec.at>> \o StepSnapshots(rec.steps)

\* The tape gained one blank square at its left end between two snapshots
GrewLeft(prev, next) ==
    /\ next.tape = <<prev.noneSymbol>> \o prev.tape
    /\ next.scannedSquare = prev.scannedSquare + 1
GrewRight(prev, next) ==
    /\ next.tape = Append(prev.tape, prev.noneSymbol)
    /\ next.scannedSquare = prev.scannedSquare

\* How many squares the tape has gained at its left end up to snapshot k
RECURSIVE LeftGrowth(_, _)
LeftGrowth(snaps, k) ==
    IF k <= 1 THEN 0
    ELSE LeftGrowth(snaps, k - 1)
         + (IF Len(snaps[k].tape) = Len(snaps[k - 1].tape) + 1
               /\ snaps[k].scannedSquare = snaps[k - 1].scannedSquare + 1
            THEN 1 ELSE 0)

\* The squares, counted from square 0 of the tape before the Move, that the
\* head occupied at some point of the Move
Occupied(rec) ==
    LET snaps == Snapshots(rec)
    IN { snaps[k].scannedSquare - LeftGrowth(snaps, k) : k \in 2..Len(snaps) }

\* C9: a Move that finds a row applies the row's operations strictly in list
\* order (P and E write at the head position current at that point, R and L
\* shift the head by one), then takes the row's final m-configuration; squares
\* the head did not occupy keep their contents; the table is never modified.
C9_MoveAppliesRow ==
    /\ m.mConfigurations = input.MConfigurations
    /\ \A k \in 1..Len(log) :
        LET rec == log[k]
            row == rec.before.mConfigurations[rec.row]
            snaps == Snapshots(rec)
        IN (rec.ran /\ rec.row # 0) =>
            /\ Len(rec.steps) = Len(row.Operations)
            /\ \A i \in 1..Len(rec.steps) :
                LET st == rec.steps[i]
                    h == st.at.scannedSquare
                    prev == IF i = 1 THEN rec.at ELSE rec.steps[i - 1].after
                IN /\ st.op = row.Operations[i]
                   /\ \/ st.at = prev
                      \/ GrewLeft(prev, st.at)
                      \/ GrewRight(prev, st.at)
                   /\ st.op[1] = "P" =>
                        /\ 0 <= h /\ h < Len(st.at.tape)
                        /\ st.after = [st.at EXCEPT !.tape[h + 1] = Tail(st.op)]
                   /\ st.op[1] = "E" =>
                        /\ 0 <= h /\ h < Len(st.at.tape)
                        /\ st.after = [st.at EXCEPT !.tape[h + 1] = rec.before.noneSymbol]
                   /\ st.op[1] = "R" => st.after = [st.at EXCEPT !.scannedSquare = h + 1]
                   /\ st.op[1] = "L" => st.after = [st.at EXCEPT !.scannedSquare = h - 1]
            /\ rec.after = [snaps[Len(snaps)] EXCEPT
                               !.currentMConfigurationName = row.FinalMConfiguration]
            /\ \A j \in 0..(Len(rec.before.tape) - 1) :
                  j \notin Occupied(rec) =>
                     TapeAt(rec.after.tape, j + LeftGrowth(snaps, Len(snaps)))
                        = rec.before.tape[j + 1]

\* a row with a print between moves was applied off the left end of a tape
\* that keeps a square the head never occupied
C9_Witness ==
    \E k \in 1..Len(log) :
        LET rec == log[k]
        IN /\ rec.ran /\ rec.row # 0
           /\ rec.before.mConfigurations[rec.row].Operations = <<opL, opL, opPX>>
           /\ LeftGrowth(Snapshots(rec), Len(Snapshots(rec))) >= 1
           /\ \E j \in 0..(Len(rec.before.tape) - 1) : j \notin Occupied(rec)

HeadNearTape(mc) == -1 <= mc.scannedSquare /\ mc.scannedSquare <= Len(mc.tape)
HeadOnTape(mc) == 0 <= mc.scannedSquare /\ mc.scannedSquare < Len(mc.tape)

\* C10: every tape read or write happens at an index inside the tape, between
\* operations the head is never more than one square beyond either end, and
\* the tape changes length only by gaining a blank at an end.
C10_TapeAccessInRange ==
    /\ HeadNearTape(m)
    /\ \A k \in 1..Len(log) :
        LET rec == log[k]
            snaps == Snapshots(rec)
        IN /\ rec.ran => HeadOnTape(rec.at)
           /\ \A i \in 1..Len(rec.steps) :
                rec.steps[i].op[1] \in {"P", "E"} => HeadOnTape(rec.steps[i].at)
           /\ \A i \in 1..Len(snaps) : HeadNearTape(snaps[i])
           /\ HeadNearTape(rec.after)
           /\ \A i \in 2..Len(snaps) :
                \/ Len(snaps[i].tape) = Len(snaps[i - 1].tape)
                \/ snaps[i].tape = Append(snaps[i - 1].tape, rec.before.noneSymbol)
                \/ snaps[i].tape = <<rec.before.noneSymbol>> \o snaps[i - 1].tape
           /\ Len(rec.after.tape) = Len(snaps[Len(snaps)].tape)
           /\ k > 1 => rec.before = log[k - 1].after

\* the head stood one square beyond each end of the tape during one call, and
\* the tape grew at both ends
C10_Witness ==
    /\ \E k \in 1..Len(log) : \E i \in 1..Len(Snapshots(log[k])) :
            Snapshots(log[k])[i].scannedSquare = -1
    /\ \E k \in 1..Len(log) : \E i \in 1..Len(Snapshots(log[k])) :
            /\ Snapshots(log[k])[i].scannedSquare = Len(Snapshots(log[k])[i].tape)
            /\ Len(Snapshots(log[k])[i].tape) >= 2
    /\ \E k \in 1..Len(log) :
            LeftGrowth(Snapshots(log[k]), Len(Snapshots(log[k]))) >= 1

-----------------------------------------------------------------------------
(* Claims about the canonicalizer and the decoder, checked under SpecStd *)

IsPrint(op) == Len(op) > 0 /\ op[1] \in {printOp, eraseOp}

IsMoveOp(op) == op \in {<<rightOp>>, <<leftOp>>}

\* The operations of a row in one of Turing's forms: at most one print or
\* erase, followed by at most one move
SingleStep(ops) ==
    \/ Len(ops) = 0
    \/ Len(ops) = 1 /\ (IsPrint(ops[1]) \/ IsMoveOp(ops[1]))
    \/ Len(ops) = 2 /\ IsPrint(ops[1]) /\ IsMoveOp(ops[2])

Range(f) == { f[i] : i \in DOMAIN f }

\* The symbols a table may write or read by name
Vocabulary(in) == Range(in.PossibleSymbols) \cup {none}

\* The name of the rows the canonical table starts with is the image of the
\* m-configuration the table starts in
StartKept(in, t) ==
    \/ Len(in.StartingMConfiguration) # 0
    \/ /\ Len(t.MachineInput.MConfigurations) > 0
       /\ t.MachineInput.MConfigurations[1].Name =
              NewMConfigurationName(InitNames(NewCreator(in)),
                                    in.MConfigurations[1].Name).v

\* A flat table with the default blank, all of whose symbols are declared,
\* on a tape of symbols the canonicalizer has named
WellFormed(in, t) ==
    /\ Len(in.NoneSymbol) = 0
    /\ none \notin Range(in.PossibleSymbols)
    /\ \A i \in DOMAIN in.MConfigurations :
          LET row == in.MConfigurations[i] IN
          /\ \A j \in DOMAIN row.Symbols :
                \/ row.Symbols[j] = any
                \/ StrContains(row.Symbols[j], not)
                \/ row.Symbols[j] \in Vocabulary(in)
          /\ \A j \in DOMAIN row.Operations :
                LET op == row.Operations[j] IN
                \/ IsMoveOp(op)
                \/ op = <<eraseOp>>
                \/ op[1] = printOp /\ StrFrom(op, 1) \in Vocabulary(in)
    /\ \A i \in DOMAIN in.Tape :
          /\ in.Tape[i] \in Vocabulary(in)
          /\ in.Tape[i] \in Range(t.SymbolMap)
    /\ StartKept(in, t)

TapesAgree == TranslateTape(stdTable.SymbolMap, stdMachine.tape) = TapeString(m)

C2_DecodedSameTape ==
    /\ ~decoded.err
    /\ decMachine.tape = stdMachine.tape

\* The canonical machine starts on an empty tape in the m-configuration of
\* the first of its rows: what a Description Number, which writes down the
\* rows and nothing else, can carry
RowsOnly(in) ==
    /\ Len(in.MConfigurations) > 0
    /\ in.Tape = <<>>
    /\ in.StartingMConfiguration \in {<<>>, in.MConfigurations[1].Name}

\* C2, amended: the Description Number of a canonical table that has a row
\* decodes, and when the canonical machine starts on an empty tape in the
\* m-configuration of its first row the decoded machine has, after every
\* number of moves, the tape of the canonical machine
C2_DecodedSameTapeFromRows ==
    /\ Len(stdTable.MachineInput.MConfigurations) > 0 => ~decoded.err
    /\ RowsOnly(stdTable.MachineInput) => decMachine.tape = stdMachine.tape

\* A canonical machine that starts as its rows say has run its five moves
\* with the decoded machine and both have printed
C2_Witness ==
    /\ RowsOnly(stdTable.MachineInput)
    /\ ~decoded.err
    /\ Len(history) = MaxMoves
    /\ ~decMachine.halted
    /\ \E i \in DOMAIN decMachine.tape : decMachine.tape[i] # decMachine.noneSymbol
    /\ decMachine.tape = stdMachine.tape

-----------------------------------------------------------------------------
(* Claims about the decoder alone, checked under SpecDN *)

\* C3: the rows decoded from an accepted digit string, written down again by
\* toStandardDescription and toDescriptionNumber, give the digit string back
C3_ReencodingReproduces ==
    (decoded # <<>> /\ reencoded # <<>>) => reencoded.DescriptionNumber = digits

\* An accepted string of two rows, and one with runs of ten digits, have been
\* decoded and written down again
C3_Witness ==
    /\ decoded # <<>> /\ ~decoded.err
    /\ reencoded # <<>>
    /\ reencoded.DescriptionNumber = digits
    /\ \/ Len(decoded.MachineInput.MConfigurations) = 2
       \/ decoded.MachineInput.MConfigurations[1].Name = <<"q">> \o Itoa(MaxRun)

-----------------------------------------------------------------------------
(* Claims about the compiler of abbreviated tables, checked under SpecAbbr *)

\* One of the steps of the compilation can be taken. An activation that is to
\* call interpretMFunction for a new signature can do so while fewer than
\* MaxDepth activations are open
Stepping ==
    \/ AtPlainRow
    \/ AtCall /\ (CallIsKnown \/ Len(stack) < MaxDepth)
    \/ AtReturn
    \/ AtEnd

\* The names a row binds: the parameters its m-function declares and the
\* name its symbol column reads the scanned symbol into
BoundNames(in, row) ==
    LET declared == ParseMFunction(row.Name).params
        symbolParam == IsSymbolParam(in, row.Symbols, declared)
    IN Range(declared) \cup (IF symbolParam.ok THEN {symbolParam.symbol} ELSE {})

\* The invocation has one of the names among its arguments, at any depth
RECURSIVE Mentions(_, _)
Mentions(invocation, names) ==
    LET parsed == ParseMFunction(invocation)
    IN \E i \in 1..Len(parsed.params) :
          IF Len(ParseMFunction(parsed.params[i]).params) = 0
          THEN parsed.params[i] \in names
          ELSE Mentions(parsed.params[i], names)

\* The final m-configuration of the row passes on, as an argument, an
\* invocation built from a name the row binds
WrapsParameter(in, row) ==
    LET final == ParseMFunction(row.FinalMConfiguration)
    IN \E i \in 1..Len(final.params) :
          /\ Len(ParseMFunction(final.params[i]).params) > 0
          /\ Mentions(final.params[i], BoundNames(in, row))

NoWrappedParameter(in) ==
    \A i \in 1..Len(in.MConfigurations) : ~WrapsParameter(in, in.MConfigurations[i])

\* C4 as the specification states it: NewAbbreviatedTable terminates on
\* every finite macro table, so that at every point of a compilation the
\* table has been returned or a next step can be taken
C4_AlwaysReturns ==
    compiled # <<>> \/ Stepping

\* C4, amended: the activations of interpretMFunction that are open never
\* outnumber the signatures interpreted, and on a macro table none of whose
\* rows passes on an invocation built from its own parameters
\* NewAbbreviatedTable terminates: at every point of the compilation the
\* table has been returned or a next step can be taken. So it does on the
\* erase m-function of the helper functions, whose invocations built from
\* parameters come back to signatures interpreted before
C4_ReturnsWithoutWrapping ==
    /\ compiled = <<>> =>
          Len(stack) <= Cardinality(DOMAIN compiler.wasAlreadyInterpretedMap)
    /\ (NoWrappedParameter(input) \/ input.MConfigurations = eraseAllOf)
          => (compiled # <<>> \/ Stepping)

\* A table with an m-function that invokes itself has been compiled: the row
\* of the m-function leads back to the name given to its own signature
C4_Witness ==
    /\ NoWrappedParameter(input)
    /\ compiled # <<>>
    /\ \E i \in 1..Len(compiled.MConfigurations) :
          LET row == compiled.MConfigurations[i]
          IN /\ row.FinalMConfiguration = row.Name
             /\ \E key \in DOMAIN compiler.newMConfigurationNames :
                   /\ StrContains(key, <<functionOpen>>)
                   /\ compiler.newMConfigurationNames[key] = row.Name

-----------------------------------------------------------------------------
(* Claims about the value MoveN returns                                     *)

LastCall == history[Len(history)]

AfterMoveN == history # <<>> /\ LastCall.call = "MoveN"

\* The calls of Move, among those of the last MoveN, that found the machine
\* running and so executed a step
StepsExecuted == Cardinality({i \in 1..Len(log) : log[i].ran})

\* C11: MoveN(n) calls Move at most n times and returns the number of steps
\* executed during the call, a Move on a halted machine executing none
C11_ReturnsStepsExecuted ==
    AfterMoveN => /\ Len(log) <= LastCall.n
                  /\ LastCall.ret = StepsExecuted

\* C11, as the code has it: MoveN(n) calls Move at most n times and returns
\* the number of calls of Move it made
C11_ReturnsMoveCalls ==
    AfterMoveN => /\ Len(log) <= LastCall.n
                  /\ LastCall.ret = Len(log)

\* MoveN(n), n >= 1, was called on a machine that had halted: it called Move
\* once, no step was executed, and it returned 1
C11_Witness ==
    /\ AfterMoveN
    /\ LastCall.n >= 1
    /\ log[1].before.halted
    /\ StepsExecuted = 0
    /\ LastCall.ret = 1

\* C12: the value MoveN(n) returns, n >= 1, is n exactly when the machine is
\* not halted after the call and less than n exactly when it is
C12_ReturnTellsHalted ==
    (AfterMoveN /\ LastCall.n >= 1) =>
        /\ (LastCall.ret = LastCall.n) <=> ~m.halted
        /\ (LastCall.ret < LastCall.n) <=> m.halted

\* C12, as the code has it: a value less than n is returned only by a machine
\* that halted, and a machine that has not halted returns n
C12_LessThanNIsHalted ==
    (AfterMoveN /\ LastCall.n >= 1) =>
        /\ (LastCall.ret < LastCall.n) => m.halted
        /\ ~m.halted => (LastCall.ret = LastCall.n)
        /\ LastCall.ret <= LastCall.n

\* A machine that was running halted in the n-th Move of MoveN(n), n >= 2:
\* the call returned n
C12_Witness ==
    /\ AfterMoveN
    /\ LastCall.n >= 2
    /\ ~log[1].before.halted
    /\ m.halted
    /\ LastCall.ret = LastCall.n

-----------------------------------------------------------------------------
(* Claims about the strings NewMachineFromDescriptionNumber accepts         *)

AllAre(d, from, to, ch) == \A i \in from..to : d[i] = ch

\* One record 7 3 1+ 3 2* 3 2* (4|5|6) 3 1+, told by the places of its 3s
IsRecord(r) ==
    LET threes == {i \in 1..Len(r) : r[i] = "3"}
    IN /\ Cardinality(threes) = 4
       /\ \E a, b, c \in threes :
             /\ threes = {2, a, b, c}
             /\ 2 < a /\ a < b /\ b < c
             /\ r[1] = "7"
             /\ a >= 4 /\ AllAre(r, 3, a - 1, "1")
             /\ AllAre(r, a + 1, b - 1, "2")
             /\ c - 1 > b /\ AllAre(r, b + 1, c - 2, "2")
             /\ r[c - 1] \in {"4", "5", "6"}
             /\ Len(r) > c /\ AllAre(r, c + 1, Len(r), "1")

\* A concatenation of one or more records: every record starts with the only
\* 7 it holds, so the records are the pieces that start at the 7s
IsRecords(d) ==
    LET sevens == {i \in 1..Len(d) : d[i] = "7"}
        EndOf(i) == IF \E j \in sevens : j > i
                    THEN (CHOOSE j \in sevens : j > i /\ \A k \in sevens : k > i => j <= k) - 1
                    ELSE Len(d)
    IN /\ d # <<>>
       /\ d[1] = "7"
       /\ \A i \in sevens : IsRecord(SubSeq(d, i, EndOf(i)))

firstCircularDN == <<"1">>

firstCircleFreeDN == <<"7", "3", "1", "3", "3", "2", "5", "3", "1">>

\* C13: NewMachineFromDescriptionNumber returns an error and an empty
\* MachineInput for every string that is no concatenation of one or more
\* records 7 3 1+ 3 2* 3 2* (4|5|6) 3 1+, such as "1", and succeeds for every
\* string that is one, such as "731332531"
C13_ErrorExactlyWhenMalformed ==
    /\ ~IsRecords(firstCircularDN)
    /\ IsRecords(firstCircleFreeDN)
    /\ decoded # <<>> =>
          IF IsRecords(digits)
          THEN ~decoded.err /\ decoded.MachineInput.MConfigurations # <<>>
          ELSE decoded.err /\ decoded.MachineInput = emptyMachineInput

\* A string that starts with a whole record and goes on with a stray digit
\* has been refused, with no row kept of the record
C13_Witness ==
    /\ decoded # <<>>
    /\ decoded.err
    /\ decoded.MachineInput = emptyMachineInput
    /\ \E j \in 1..(Len(digits) - 1) : IsRecords(SubSeq(digits, 1, j))
    /\ ~IsRecords(digits)

-----------------------------------------------------------------------------
(* Claims about the rows and the description of the canonical table        *)

\* A decimal numeral as strconv.Itoa writes it
IsNumeral(s) ==
    /\ Len(s) > 0
    /\ \A i \in 1..Len(s) : IsDigit(s[i])
    /\ Len(s) = 1 \/ s[1] # "0"

\* prefix followed by the numeral of a number that is at least min
IsNumbered(s, prefix, min) ==
    /\ Len(s) > Len(prefix)
    /\ SubSeq(s, 1, Len(prefix)) = prefix
    /\ IsNumeral(StrFrom(s, Len(prefix)))
    /\ AtoiFrom(StrFrom(s, Len(prefix)), 0) >= min

IsStandardName(s) == IsNumbered(s, mConfigurationNamePrefix, 1)

IsStandardSymbol(s) == IsNumbered(s, mConfigurationSymbolPrefix, 0)

IsStandardMove(op) == op \in {<<leftOp>>, <<rightOp>>, <<"N">>}

RestrictedNormalForm(row) ==
    /\ IsStandardName(row.Name)
    /\ Len(row.Symbols) = 1
    /\ IsStandardSymbol(row.Symbols[1])
    /\ Len(row.Operations) = 2
    /\ Len(row.Operations[1]) > 1
    /\ row.Operations[1][1] = printOp
    /\ IsStandardSymbol(StrFrom(row.Operations[1], 1))
    /\ IsStandardMove(row.Operations[2])
    /\ IsStandardName(row.FinalMConfiguration)

StandardRowsOf == stdTable.MachineInput.MConfigurations

\* C15: every row of the table NewStandardTable returns has one symbol S<k>,
\* two operations, a print PS<j> and then one of L, R, N, and an
\* m-configuration and a final m-configuration q<i> with i >= 1
C15_RowsInRestrictedNormalForm ==
    \A i \in DOMAIN StandardRowsOf : RestrictedNormalForm(StandardRowsOf[i])

\* A table in which a row without operations, a row of more than two
\* operations and a row for any symbol have been brought to the restricted
\* form, with rows added for the steps in between
C15_Witness ==
    /\ \E i \in DOMAIN input.MConfigurations : input.MConfigurations[i].Operations = <<>>
    /\ \E i \in DOMAIN input.MConfigurations : Len(input.MConfigurations[i].Operations) > 2
    /\ \E i \in DOMAIN input.MConfigurations : any \in Range(input.MConfigurations[i].Symbols)
    /\ Len(StandardRowsOf) > Len(input.MConfigurations)
    /\ \E i \in DOMAIN StandardRowsOf : StandardRowsOf[i].Operations[2] = <<"N">>
    /\ \A i \in DOMAIN StandardRowsOf : RestrictedNormalForm(StandardRowsOf[i])

\* The number a canonical name or symbol carries after its one-letter prefix
IndexOf(s) == AtoiFrom(StrFrom(s, 1), 0)

\* ; D A^n D C^s D C^p M D A^f for one canonical row
RecordOf(row) ==
    <<";", "D">> \o [i \in 1..IndexOf(row.Name) |-> "A"]
    \o <<"D">> \o [i \in 1..IndexOf(row.Symbols[1]) |-> "C"]
    \o <<"D">> \o [i \in 1..IndexOf(StrFrom(row.Operations[1], 1)) |-> "C"]
    \o row.Operations[2]
    \o <<"D">> \o [i \in 1..IndexOf(row.FinalMConfiguration) |-> "A"]

\* The records of the rows from the i-th on, one after the other
RECURSIVE RecordsFrom(_, _)
RecordsFrom(rows, i) ==
    IF i > Len(rows) THEN <<>> ELSE RecordOf(rows[i]) \o RecordsFrom(rows, i + 1)

descriptionAlphabet == <<"A", "C", "D", "L", "R", "N", ";">>

\* The digit that stands for a character of the Standard Description
DigitFor(ch) ==
    Digits[(CHOOSE k \in 1..Len(descriptionAlphabet) : descriptionAlphabet[k] = ch) + 1]

\* The input of TestStandardMachineExample1
standardExample1 == MachineInput(example1, <<>>, <<>>, <<sym0, sym1>>, <<>>)

standardExample1SD ==
    << ";", "D", "A", "D", "D", "C", "R", "D", "A", "A", ";", "D", "A",
       "A", "D", "D", "R", "D", "A", "A", "A", ";", "D", "A", "A", "A",
       "D", "D", "C", "C", "R", "D", "A", "A", "A", "A", ";", "D", "A",
       "A", "A", "A", "D", "D", "R", "D", "A" >>

standardExample1DN ==
    << "7", "3", "1", "3", "3", "2", "5", "3", "1", "1", "7", "3", "1",
       "1", "3", "3", "5", "3", "1", "1", "1", "7", "3", "1", "1", "1",
       "3", "3", "2", "2", "5", "3", "1", "1", "1", "1", "7", "3", "1",
       "1", "1", "1", "3", "3", "5", "3", "1" >>

\* C14: the Standard Description is, row after row of the canonical table,
\* the record ; D A^n D C^s D C^p M D A^f of the row, and the Description
\* Number is that string with A, C, D, L, R, N, ; written 1, 2, 3, 4, 5, 6, 7;
\* for the table b/c/e/k they are the strings of TestStandardMachineExample1
C14_DescriptionOfRows ==
    /\ stdTable.StandardDescription = RecordsFrom(StandardRowsOf, 1)
    /\ Len(stdTable.DescriptionNumber) = Len(stdTable.StandardDescription)
    /\ \A i \in DOMAIN stdTable.StandardDescription :
          /\ stdTable.StandardDescription[i] \in Range(descriptionAlphabet)
          /\ stdTable.DescriptionNumber[i] = DigitFor(stdTable.StandardDescription[i])
    /\ input = standardExample1 =>
          /\ stdTable.StandardDescription = standardExample1SD
          /\ stdTable.DescriptionNumber = standardExample1DN

\* The table b/c/e/k has been standardized and described
C14_Witness ==
    /\ input = standardExample1
    /\ Len(StandardRowsOf) = 4
    /\ stdTable.StandardDescription = standardExample1SD
    /\ stdTable.DescriptionNumber = standardExample1DN

-----------------------------------------------------------------------------
(* Claims about the rows NewAbbreviatedTable emits                          *)

\* The table has been compiled
Compiled == compiled # <<>>

\* NewAbbreviatedTable has returned and no machine has been built yet
Returned == Compiled /\ m = <<>>

\* The invocations that were resolved, as the signatures they were marked by
Invocations == DOMAIN compiler.wasAlreadyInterpretedMap

PlainNameOf(signature) == compiler.newMConfigurationNames[signature]

\* The rows of the macro table that define the m-function of a signature
DefinitionsOf(signature) ==
    LET parsed == ParseMFunction(signature)
    IN { i \in DOMAIN input.MConfigurations :
           LET defined == ParseMFunction(input.MConfigurations[i].Name)
           IN /\ defined.name = parsed.name
              /\ Len(defined.params) = Len(parsed.params) }

DeclaredParams(row) == ParseMFunction(row.Name).params

\* The symbol column of the row is a single name that is no symbol of the
\* vocabulary, not the blank, and no declared parameter of the row
ReadsSymbol(row) ==
    /\ Len(row.Symbols) = 1
    /\ ~StrContains(row.Symbols[1], not)
    /\ ~StrContains(row.Symbols[1], any)
    /\ row.Symbols[1] \notin Vocabulary(input)
    /\ row.Symbols[1] \notin Range(DeclaredParams(row))

\* The values the declared parameters of a row have in an invocation
BoundBy(row, signature) ==
    LET declared == DeclaredParams(row)
        given == ParseMFunction(signature).params
    IN [name \in Range(declared) |->
          given[CHOOSE i \in DOMAIN declared :
                   declared[i] = name /\ \A j \in DOMAIN declared : declared[j] = name => j <= i]]

\* The same, with the name p bound to the symbol s
BoundWith(row, signature, name, s) ==
    [k \in DOMAIN BoundBy(row, signature) \cup {name} |->
        IF k = name THEN s ELSE BoundBy(row, signature)[k]]

\* The operations of a definition with the names of a binding replaced: the
\* symbol of a print is all that follows P
OperationsBound(operations, binding) ==
    [i \in DOMAIN operations |->
        IF operations[i][1] = printOp /\ StrFrom(operations[i], 1) \in DOMAIN binding
        THEN <<printOp>> \o binding[StrFrom(operations[i], 1)]
        ELSE operations[i]]

\* The signature a final m-configuration invokes under a binding
FinalBound(final, binding) ==
    LET parsed == ParseMFunction(final)
        name == SubstituteFinalMConfigurationName(parsed.name, binding)
        params == SubstituteFinalMConfigurationParams(parsed.params, binding)
        call == IF Len(params) = 0 THEN ParseMFunction(name)
                ELSE [name |-> name, params |-> params]
    IN ComposeMFunction(call.name, call.params)

EmittedRows == compiled.MConfigurations

BindingsOf(row, signature) ==
    IF ReadsSymbol(row)
    THEN { BoundWith(row, signature, row.Symbols[1], s) : s \in Vocabulary(input) }
    ELSE { BoundBy(row, signature) }

\* The definition row and the binding an emitted row comes from agree with
\* it on what Agrees compares
ComesFrom(emitted, Agrees(_, _, _)) ==
    \E signature \in Invocations :
       /\ PlainNameOf(signature) = emitted.Name
       /\ \E d \in DefinitionsOf(signature) :
             \E binding \in BindingsOf(input.MConfigurations[d], signature) :
                Agrees(emitted, input.MConfigurations[d], binding)

OperationsAgree(emitted, row, binding) ==
    emitted.Operations = OperationsBound(row.Operations, binding)

\* Every row of every resolved invocation is emitted with what Agrees compares
EveryRowEmitted(Agrees(_, _, _)) ==
    \A signature \in Invocations :
       \A d \in DefinitionsOf(signature) :
          \A binding \in BindingsOf(input.MConfigurations[d], signature) :
             \E i \in DOMAIN EmittedRows :
                /\ EmittedRows[i].Name = PlainNameOf(signature)
                /\ Agrees(EmittedRows[i], input.MConfigurations[d], binding)

\* C17: in every emitted row a Print whose symbol is a name the substitution
\* binds prints the value bound, a Print of any other symbol, of one
\* character or of several, is emitted as it is, and so are R, L and E
C17_PrintsSubstituted ==
    Returned =>
       /\ \A i \in DOMAIN EmittedRows : ComesFrom(EmittedRows[i], OperationsAgree)
       /\ EveryRowEmitted(OperationsAgree)

\* The symbol of every Print of the macro table is one character long
OneCharacterPrints ==
    \A i \in DOMAIN input.MConfigurations :
       \A j \in DOMAIN input.MConfigurations[i].Operations :
          LET operation == input.MConfigurations[i].Operations[j]
          IN operation[1] = printOp => Len(operation) = 2

\* C17, as the code has it: the same for a macro table whose Prints all name
\* a symbol or a parameter of one character
C17_OneCharacterPrintsSubstituted ==
    (Returned /\ OneCharacterPrints) =>
       /\ \A i \in DOMAIN EmittedRows : ComesFrom(EmittedRows[i], OperationsAgree)
       /\ EveryRowEmitted(OperationsAgree)

\* The row b of a table that prints S1 has been emitted printing S, and the
\* row of f(a, bb) printing b for P bb
C17_Witness ==
    /\ Compiled
    /\ input.MConfigurations = longPrints
    /\ \E i \in DOMAIN EmittedRows :
          /\ EmittedRows[i].Name = PlainNameOf(<<"b">>)
          /\ EmittedRows[i].Operations = << <<"P", "S">>, <<"R">> >>
    /\ \E i \in DOMAIN EmittedRows :
          EmittedRows[i].Operations = << <<"P", "x", "y">>, <<"P", "b">>, <<"E">>, <<"L">> >>

\* The symbol list of a definition with the names of a binding replaced
SymbolsBound(symbols, binding) ==
    [i \in DOMAIN symbols |->
        IF symbols[i] \in DOMAIN binding THEN binding[symbols[i]]
        ELSE IF /\ Len(symbols[i]) > 1
                /\ <<symbols[i][1]>> = not
                /\ StrFrom(symbols[i], 1) \in DOMAIN binding
             THEN not \o binding[StrFrom(symbols[i], 1)]
             ELSE symbols[i]]

SymbolsAgree(emitted, row, binding) ==
    emitted.Symbols = SymbolsBound(row.Symbols, binding)

\* C18: the symbol list of every emitted row is the list of the definition,
\* entry for entry, with an entry that is a bound name replaced by its value,
\* an entry !p with p bound replaced by ! and the value of p, and every other
\* entry, *, the blank, a symbol or !x with x not bound, as it is
C18_SymbolsSubstituted ==
    Returned =>
       /\ \A i \in DOMAIN EmittedRows : ComesFrom(EmittedRows[i], SymbolsAgree)
       /\ EveryRowEmitted(SymbolsAgree)

\* f(xy, 0) of a table whose row f(a, bb) has the symbols !a, bb, !x, S1 has
\* been emitted with the symbols !xy, 0, !x, S1
C18_Witness ==
    /\ Compiled
    /\ input.MConfigurations = longPrints
    /\ \E i \in DOMAIN EmittedRows :
          /\ EmittedRows[i].Name = PlainNameOf(<<"f", "(", "x", "y", ",", "0", ")">>)
          /\ EmittedRows[i].Symbols = << <<"!", "x", "y">>, <<"0">>, <<"!", "x">>, <<"S", "1">> >>

\* Every signature that was given a name: the invocations resolved and the
\* starting m-configuration
Named == DOMAIN compiler.newMConfigurationNames

\* q followed by a number, the form of the names the compiler assigns
IsAssignedName(s) == IsNumbered(s, mConfigurationNamePrefix, 0)

\* The last Move found the machine running in the m-configuration `name`
MovedFrom(name) ==
    /\ m # <<>>
    /\ log # <<>>
    /\ ~log[1].before.halted
    /\ log[1].before.currentMConfigurationName = name

\* C19: an invocation whose name and number of parameters match no
\* definition is no error: the table is returned, the invocation has an
\* assigned name under which no row is emitted, and a machine that comes to
\* that name is halted by its next Move
C19_UndefinedInvocationHalts ==
    /\ input.MConfigurations = undefinedInvocation => (Compiled \/ Stepping)
    /\ Compiled =>
         \A signature \in Named :
            DefinitionsOf(signature) = {} =>
               /\ IsAssignedName(PlainNameOf(signature))
               /\ \A i \in DOMAIN EmittedRows : EmittedRows[i].Name # PlainNameOf(signature)
               /\ MovedFrom(PlainNameOf(signature)) => m.halted

\* The machine of a table that invokes f(x), where only f(A, a) is defined,
\* has moved to the name of f(x) and has been halted there by its next Move
C19_Witness ==
    /\ Compiled
    /\ input.MConfigurations = undefinedInvocation
    /\ DefinitionsOf(<<"f", "(", "x", ")">>) = {}
    /\ <<"z", "z", "(", "x", ")">> \in Named
    /\ MovedFrom(PlainNameOf(<<"f", "(", "x", ")">>))
    /\ Len(history) = 2
    /\ m.halted

\* C20: every m-configuration and every final m-configuration of the table
\* NewAbbreviatedTable returns is an assigned name, q followed by a number,
\* with no parenthesis, parameter or comma in it
C20_OnlyAssignedNames ==
    Returned =>
       \A i \in DOMAIN EmittedRows :
          /\ IsAssignedName(EmittedRows[i].Name)
          /\ IsAssignedName(EmittedRows[i].FinalMConfiguration)
          /\ \A ch \in {functionOpen, functionClose, functionParamDelimiter} :
                /\ ~StrContains(EmittedRows[i].Name, <<ch>>)
                /\ ~StrContains(EmittedRows[i].FinalMConfiguration, <<ch>>)

\* The table of the helper functions, whose final m-configurations invoke
\* m-functions with invocations as parameters, has been compiled into rows
C20_Witness ==
    /\ Compiled
    /\ input.MConfigurations = eraseAllOf
    /\ Len(EmittedRows) > Len(input.MConfigurations)
    /\ \E signature \in Invocations :
          /\ Len(ParseMFunction(signature).params) > 0
          /\ \E i \in DOMAIN EmittedRows :
                EmittedRows[i].FinalMConfiguration = PlainNameOf(signature)
    /\ \A i \in DOMAIN EmittedRows :
          /\ IsAssignedName(EmittedRows[i].Name)
          /\ IsAssignedName(EmittedRows[i].FinalMConfiguration)

-----------------------------------------------------------------------------
(* parseMFunction called on its own, on invocations written out from a name *)
(* and a list of arguments                                                  *)

MaxArguments == 3

\* The arguments an invocation is written with: names, the empty argument,
\* and invocations with their own spaces, commas and nesting
ArgumentTexts ==
    { <<"a">>, <<"b", "1">>, <<>>,
      <<"x", "(", "y", ",", " ", "z", ")">>,
      <<"x", "(", "y", ",", "z", ")">>,
      <<"g", "(", "h", "(", "a", ",", " ", ")", ",", " ", "c", ")">> }

ArgumentLists ==
    UNION { [1..n -> ArgumentTexts] : n \in 0..MaxArguments }

\* name(arg, ...) with `before` and `after` written around every argument;
\* the name alone when there is no argument
RECURSIVE WrittenArguments(_, _, _, _)
WrittenArguments(arguments, i, before, after) ==
    IF i > Len(arguments) THEN <<>>
    ELSE before \o arguments[i] \o after
         \o (IF i < Len(arguments) THEN <<functionParamDelimiter>> ELSE <<>>)
         \o WrittenArguments(arguments, i + 1, before, after)

Written(name, arguments, before, after) ==
    IF arguments = <<>> THEN name
    ELSE name \o <<functionOpen>> \o WrittenArguments(arguments, 1, before, after)
              \o <<functionClose>>

Invocation(name, arguments, before, after) ==
    [mFunction |-> Written(name, arguments, before, after),
     name |-> name,
     arguments |-> arguments]

InvocationsWritten ==
    { Invocation(name, arguments, before, after) :
        name \in { <<"f">>, <<"e", "1">> },
        arguments \in ArgumentLists,
        before \in { <<>>, <<" ">> },
        after \in { <<>>, <<" ">> } }

ParseInit ==
    /\ argument \in InvocationsWritten
    /\ result = <<>>
    /\ input = <<>> /\ m = <<>> /\ history = <<>> /\ log = <<>>
    /\ stdTable = <<>> /\ stdMachine = <<>> /\ decoded = <<>> /\ decMachine = <<>>
    /\ digits = <<>> /\ reencoded = <<>>
    /\ compiler = <<>> /\ stack = <<>> /\ cursor = 0 /\ compiled = <<>>
    /\ backing = <<>> /\ peers = <<>> /\ beaver = <<>>

\* parseMFunction(argument.mFunction)
ParseCall ==
    /\ result = <<>>
    /\ result' = <<ParseMFunction(argument.mFunction)>>
    /\ UNCHANGED <<input, m, history, log, stdTable, stdMachine, decoded, decMachine,
                   digits, reencoded, Compilation, argument, backing, peers, beaver>>

ParseNext == ParseCall

SpecParse == ParseInit /\ [][ParseNext]_vars

\* C21: parseMFunction gives the name and, in order, the arguments between
\* the commas that are inside no inner parentheses: the spaces around an
\* argument are dropped, an argument that is an invocation is given whole
\* wherever it stands, an empty argument is given as the blank, and a name
\* without parentheses is given with no parameter
C21_SplitsAtTopLevelCommas ==
    result # <<>> =>
       /\ result[1].name = argument.name
       /\ Len(result[1].params) = Len(argument.arguments)
       /\ \A i \in DOMAIN argument.arguments :
             result[1].params[i] =
                 IF argument.arguments[i] = <<>> THEN none ELSE argument.arguments[i]

\* f( x(y, z) , , g(h(a, ), c) ), an invocation first, an empty argument in
\* the middle and a nested invocation last, with spaces around each, has
\* been split into its three parameters
C21_Witness ==
    /\ result # <<>>
    /\ argument.mFunction =
          Written(<<"f">>,
                  << <<"x", "(", "y", ",", " ", "z", ")">>, <<>>,
                     <<"g", "(", "h", "(", "a", ",", " ", ")", ",", " ", "c", ")">> >>,
                  <<" ">>, <<" ">>)
    /\ result[1].params =
          << <<"x", "(", "y", ",", " ", "z", ")">>, none,
             <<"g", "(", "h", "(", "a", ",", " ", ")", ",", " ", "c", ")">> >>

-----------------------------------------------------------------------------
(* Claims about the canonical table of an input with a blank of its own    *)

\* The input names a blank other than the space
BlankOverridden == Len(input.NoneSymbol) # 0 /\ input.NoneSymbol # none

standardBlank == mConfigurationSymbolPrefix \o Itoa(0)

\* C22: for an input whose NoneSymbol is not the space, S0 of the SymbolMap
\* is that blank, the blank of the canonical machine is S0, and the tape of
\* the canonical machine, translated, is the tape of the machine of the input
\* run with its own blank
C22_BlankOverrideHonoured ==
    BlankOverridden =>
       /\ Translate(stdTable.SymbolMap, standardBlank) = input.NoneSymbol
       /\ stdTable.MachineInput.NoneSymbol = standardBlank
       /\ (\A i \in DOMAIN input.MConfigurations :
              SingleStep(input.MConfigurations[i].Operations)) => TapesAgree

\* C22, as the code has it: S0 is the space whatever blank the input names,
\* and the blank of the canonical machine is S0
C22_BlankIsAlwaysSpace ==
    /\ Translate(stdTable.SymbolMap, standardBlank) = none
    /\ stdTable.MachineInput.NoneSymbol = standardBlank

\* The machine of a table written for the blank _ has printed two 0s with a
\* _ between them, while the canonical machine, for which _ is S1 and the
\* blank S0 is the space, has halted on an empty square
C22_Witness ==
    /\ BlankOverridden
    /\ input.MConfigurations = underscoreBlank
    /\ input.Tape = <<>>
    /\ Len(history) >= 3
    /\ ~m.halted
    /\ SubSeq(m.tape, 1, 3) = <<sym0, underscore, sym0>>
    /\ stdMachine.halted
    /\ TranslateTape(stdTable.SymbolMap, stdMachine.tape) = none
    /\ Translate(stdTable.SymbolMap, standardBlank) = none

-----------------------------------------------------------------------------
(* Two machines built from one MachineInput. NewMachine stores input.Tape   *)
(* itself, so the tape of each machine and the Tape of the input are slices *)
(* of one array until the machine's tape is reallocated: append writes in   *)
(* place while the length is below the capacity and moves the tape to a new *)
(* array otherwise, and the extension on the left always builds a new array *)

MaxSpare == 1
MaxInterleaved == 4

\* A square of the array beyond the length of the Tape: the zero string
zeroString == <<>>

SharedRows ==
    { MConfiguration(nameB, <<sym0>>, <<opP1>>, nameB),
      MConfiguration(nameB, <<sym1>>, <<opR>>, nameC),
      MConfiguration(nameB, <<any>>, <<opR, opPX>>, nameC),
      MConfiguration(nameC, <<none>>, <<opP1, opR>>, nameC),
      MConfiguration(nameC, <<sym0>>, <<opE, opL, opL>>, nameB),
      MConfiguration(nameB, <<none>>, <<opP0, opL>>, nameB) }

SharedTables == { <<r1, r2>> : r1, r2 \in SharedRows }

SharedTapes == { <<sym0>>, <<sym1, sym0>> }

SharedInputs ==
    { MachineInput(t, tape, <<>>, <<sym0, sym1>>, <<>>) :
        t \in SharedTables, tape \in SharedTapes }

RECURSIVE Spare(_)
Spare(n) == IF n = 0 THEN <<>> ELSE <<zeroString>> \o Spare(n - 1)

\* The array seen through a slice of it that starts at its first square
SliceOf(array, length) == SubSeq(array, 1, length)

\* The array after the squares of a slice of it have been written
WrittenThrough(array, tape) == tape \o SubSeq(array, Len(tape) + 1, Len(array))

\* The states a machine goes through in one call of Move: after the
\* extension of scan, then after the extension and after the access of each
\* operation, and last with the halted flag or the final m-configuration
RECURSIVE StepStages(_)
StepStages(steps) ==
    IF steps = <<>> THEN <<>>
    ELSE <<Head(steps).at, Head(steps).after>> \o StepStages(Tail(steps))

MoveStages(rec) ==
    IF rec.ran THEN <<rec.at>> \o StepStages(rec.steps) \o <<rec.after>> ELSE <<>>

\* A machine, whether its tape is still a slice of the array of the input,
\* and that array, after the machine went from one stage to the next:
\* a tape that grew on the left, or on the right with no capacity left, is
\* in an array of its own from then on
RECURSIVE ThroughStages(_, _, _, _)
ThroughStages(mc, attached, array, stages) ==
    IF stages = <<>> THEN [m |-> mc, attached |-> attached, array |-> array]
    ELSE LET next == Head(stages)
             grew == Len(next.tape) > Len(mc.tape)
             inPlace == mc.scannedSquare >= 0 /\ Len(mc.tape) < Len(array)
             stays == attached /\ (grew => inPlace)
         IN ThroughStages(next, stays,
                          IF stays THEN WrittenThrough(array, next.tape) ELSE array,
                          Tail(stages))

\* Move on a machine whose tape may be a slice of the array
SharedMove(peer, array) ==
    ThroughStages(peer.m, peer.attached, array, MoveStages(MoveRecord(peer.m)))

\* What a slice of the array shows once the array has been written
Refreshed(peer, array) ==
    IF peer.attached
    THEN [peer EXCEPT !.m.tape = SliceOf(array, Len(peer.m.tape))]
    ELSE peer

ShareInit ==
    /\ input \in SharedInputs
    /\ \E spare \in 0..MaxSpare : backing = input.Tape \o Spare(spare)
    /\ peers = [i \in 1..2 |-> [m |-> NewMachine(input), attached |-> TRUE]]
    /\ m = <<>>
    /\ history = <<>>
    /\ log = <<>>
    /\ stdTable = <<>> /\ stdMachine = <<>> /\ decoded = <<>> /\ decMachine = <<>>
    /\ digits = <<>> /\ reencoded = <<>>
    /\ compiler = <<>> /\ stack = <<>> /\ cursor = 0 /\ compiled = <<>>
    /\ argument = <<>> /\ result = <<>> /\ beaver = <<>>

\* Move is called on one of the two machines
PeerMove(i) ==
    /\ Len(history) < MaxInterleaved
    /\ LET r == SharedMove(peers[i], backing)
       IN /\ backing' = r.array
          /\ peers' = [j \in 1..2 |->
                         IF j = i THEN [m |-> r.m, attached |-> r.attached]
                         ELSE Refreshed(peers[j], r.array)]
          /\ input' = [input EXCEPT !.Tape = SliceOf(r.array, Len(input.Tape))]
    /\ log' = <<MoveRecord(peers[i].m)>>
    /\ history' = Append(history, [call |-> "Move", n |-> i, ret |-> 0])
    /\ UNCHANGED <<m, stdTable, stdMachine, decoded, decMachine, digits, reencoded,
                   Compilation, argument, result, beaver>>

ShareNext == \E i \in 1..2 : PeerMove(i)

SpecShare == ShareInit /\ [][ShareNext]_vars

\* The machine that made the last call of Move, and the other one
Mover == history[Len(history)].n
Other == 3 - Mover

\* C23: a call of Move on one machine leaves the tape, the scanned square,
\* the m-configuration and the halted flag of the other machine as they were,
\* and the Tape of the MachineInput both were built from
C23_MachinesShareNothing ==
    [][\A i \in 1..2 :
         PeerMove(i) => /\ peers'[3 - i].m = peers[3 - i].m
                        /\ input'.Tape = input.Tape]_vars

\* C23, as the code has it: a machine whose tape has been reallocated no
\* longer writes on the array of the input
C23_SharesUntilReallocated ==
    [][\A i \in 1..2 :
         (PeerMove(i) /\ ~peers[i].attached) =>
            /\ backing' = backing
            /\ peers'[3 - i] = peers[3 - i]
            /\ input' = input]_vars

\* The first machine has printed 1 on the first square of a tape that began
\* as 0, the second machine has not moved, and the second machine and the
\* input both show the 1
C23_Witness ==
    /\ Len(history) = 1
    /\ Mover = 1
    /\ peers[1].attached /\ peers[2].attached
    /\ log[1].before.tape = <<sym0>>
    /\ peers[Other].m.scannedSquare = 0
    /\ peers[Other].m.tape = <<sym1>>
    /\ input.Tape = <<sym1>>

-----------------------------------------------------------------------------
(* The busy beaver search: busyBeaver runs every table of n m-configurations *)
(* over the symbols 0 and 1 and keeps the best count of 1s                  *)

haltMConfigurationName == <<"h", "a", "l", "t">>

\* maxMoves, 1000 in the source. A machine of the family with one or two
\* m-configurations that halts does so in 7 moves at most, the move that
\* finds no row for halt included, so every value above 7 gives the search
\* the same results
maxMoves == 8

\* The values of n of TestFirstBusyBeaver and TestSecondBusyBeaver
BeaverSizes == {1, 2}

\* The rows busyBeaver starts from
RECURSIVE InitialMConfigurations(_, _)
InitialMConfigurations(i, n) ==
    IF i >= n THEN <<>>
    ELSE << MConfiguration(Itoa(i), <<sym0>>, <<opP0, opL>>, sym0),
            MConfiguration(Itoa(i), <<sym1>>, <<opP0, opL>>, sym0) >>
         \o InitialMConfigurations(i + 1, n)

\* nextMConfiguration: the row that follows, and whether the row was reset
NextMConfiguration(n, mConfiguration) ==
    IF mConfiguration.Operations[1] = opP0
    THEN [row |-> [mConfiguration EXCEPT
                     !.Operations = <<opP1, mConfiguration.Operations[2]>>],
          reset |-> FALSE]
    ELSE IF mConfiguration.Operations[2] = opL
    THEN [row |-> [mConfiguration EXCEPT !.Operations = <<opP0, opR>>],
          reset |-> FALSE]
    ELSE IF mConfiguration.FinalMConfiguration # haltMConfigurationName
    THEN LET finalMConfigurationInt == Atoi(mConfiguration.FinalMConfiguration)
             finalMConfiguration ==
                IF finalMConfigurationInt = n - 1 THEN haltMConfigurationName
                ELSE Itoa(finalMConfigurationInt + 1)
         IN [row |-> [mConfiguration EXCEPT
                        !.Operations = <<opP0, opL>>,
                        !.FinalMConfiguration = finalMConfiguration],
             reset |-> FALSE]
    ELSE [row |-> [mConfiguration EXCEPT
                     !.Operations = <<opP0, opL>>,
                     !.FinalMConfiguration = sym0],
          reset |-> TRUE]

atLeastOneHaltState(mConfigurations) ==
    \E i \in DOMAIN mConfigurations :
        mConfigurations[i].FinalMConfiguration = haltMConfigurationName

getBusyBeaverMachineInput(mConfigurations) ==
    MachineInput(mConfigurations, <<>>, <<>>, <<sym1>>, sym0)

\* The number of squares of a tape that hold 1
RECURSIVE Ones(_)
Ones(tape) ==
    IF tape = <<>> THEN 0
    ELSE (IF Head(tape) = sym1 THEN 1 ELSE 0) + Ones(Tail(tape))

\* What simulateBusyBeaver makes of the moves MoveN returned and of the tape
CountedOnes(moves, tape) == IF moves = maxMoves THEN 0 ELSE Ones(tape)

\* MoveN(maxMoves) on the machine of the rows
BeaverRun(mConfigurations) ==
    MoveN(NewMachine(getBusyBeaverMachineInput(mConfigurations)), maxMoves)

RunCounted(r) == CountedOnes(r.ret, r.m.tape)

simulateBusyBeaver(mConfigurations) == RunCounted(BeaverRun(mConfigurations))

\* The inner loop of busyBeaver from its i-th iteration on: the rows, written
\* in place, and whether all of them were reset
RECURSIVE Iterate(_, _, _)
IterateWith(n, written, i, reset) ==
    IF ~reset THEN [mConfigurations |-> written, over |-> FALSE]
    ELSE IF i = (n * 2) - 1 THEN [mConfigurations |-> written, over |-> TRUE]
    ELSE Iterate(n, written, i + 1)

IterateOn(n, mConfigurations, i, next) ==
    IterateWith(n, [mConfigurations EXCEPT ![i + 1] = next.row], i, next.reset)

Iterate(n, mConfigurations, i) ==
    IterateOn(n, mConfigurations, i, NextMConfiguration(n, mConfigurations[i + 1]))

\* bestMConfigurations: nil until a result beats best, and from then on a
\* slice of the array of mConfigurations, which the inner loop writes in place
BestMConfigurations(assigned, mConfigurations) ==
    IF assigned THEN mConfigurations ELSE <<>>

BeaverInit ==
    /\ \E n \in BeaverSizes :
          beaver = [n |-> n,
                    mConfigurations |-> InitialMConfigurations(0, n),
                    best |-> 0,
                    assigned |-> FALSE,
                    bestMConfigurations |-> <<>>,
                    attained |-> <<>>,
                    over |-> FALSE]
    /\ input = <<>> /\ m = <<>> /\ history = <<>> /\ log = <<>>
    /\ stdTable = <<>> /\ stdMachine = <<>> /\ decoded = <<>> /\ decMachine = <<>>
    /\ digits = <<>> /\ reencoded = <<>>
    /\ compiler = <<>> /\ stack = <<>> /\ cursor = 0 /\ compiled = <<>>
    /\ argument = <<>> /\ result = <<>> /\ backing = <<>> /\ peers = <<>>

\* The locals after one turn of the main loop, given the result of the run
\* (0 for rows that were not run, which like a result of 0 never beats best)
\* and the rows as the inner loop left them
Turned(b, outcome, stepped) ==
    [n |-> b.n,
     mConfigurations |-> stepped.mConfigurations,
     best |-> IF outcome > b.best THEN outcome ELSE b.best,
     assigned |-> b.assigned \/ outcome > b.best,
     bestMConfigurations |->
        BestMConfigurations(b.assigned \/ outcome > b.best, stepped.mConfigurations),
     attained |-> IF outcome > b.best THEN b.mConfigurations ELSE b.attained,
     over |-> stepped.over]

\* One turn of the main loop: the rows are run if one of them leads to halt,
\* then the rows are stepped to the next table of the family. `attained`
\* keeps the rows as they were when they gave the best result
BeaverTurn ==
    /\ ~beaver.over
    /\ beaver' = Turned(beaver,
                        IF atLeastOneHaltState(beaver.mConfigurations)
                        THEN simulateBusyBeaver(beaver.mConfigurations) ELSE 0,
                        Iterate(beaver.n, beaver.mConfigurations, 0))
    /\ UNCHANGED <<input, m, history, log, stdTable, stdMachine, decoded, decMachine,
                   digits, reencoded, Compilation, argument, result, backing, peers>>

\* busyBeaver returns
BeaverReturn ==
    /\ beaver.over
    /\ result = <<>>
    /\ result' = <<[best |-> beaver.best,
                    input |-> getBusyBeaverMachineInput(beaver.bestMConfigurations)]>>
    /\ UNCHANGED <<input, m, history, log, stdTable, stdMachine, decoded, decMachine,
                   digits, reencoded, Compilation, argument, backing, peers, beaver>>

BeaverNext == BeaverTurn \/ BeaverReturn

SpecBeaver == BeaverInit /\ [][BeaverNext]_vars

BeaverReturned == result # <<>>

\* The numbers the tests expect of busyBeaver(1) and busyBeaver(2)
ExpectedOnes(n) == IF n = 1 THEN 1 ELSE 4

\* A machine of the rows halts within maxMoves and leaves so many 1s
Attains(mConfigurations, ones) ==
    /\ mConfigurations # <<>>
    /\ LET r == BeaverRun(mConfigurations)
       IN r.m.halted /\ r.ret <= maxMoves /\ Ones(r.m.tape) = ones

\* C24: busyBeaver(n) returns the most 1s a halting machine of the family
\* leaves (1 for n = 1, 4 for n = 2), and a MachineInput whose machine halts
\* within maxMoves with that many 1s on its tape
C24_ReturnsBestAndItsMachine ==
    BeaverReturned =>
       /\ result[1].best = ExpectedOnes(beaver.n)
       /\ Attains(result[1].input.MConfigurations, result[1].best)

\* C24, as the code has it: the number returned is the most 1s, and rows that
\* attain it were met in the search; the rows returned are those the search
\* ended on, the rows it started from
C24_ReturnsBestAndLastRows ==
    BeaverReturned =>
       /\ result[1].best = ExpectedOnes(beaver.n)
       /\ Attains(beaver.attained, result[1].best)
       /\ result[1].input.MConfigurations = InitialMConfigurations(0, beaver.n)

\* No table of the family that is run leaves more 1s than the tests expect
C24_NoMachineLeavesMore ==
    (beaver # <<>> /\ ~beaver.over /\ atLeastOneHaltState(beaver.mConfigurations)) =>
       simulateBusyBeaver(beaver.mConfigurations) <= ExpectedOnes(beaver.n)

\* busyBeaver(2) has returned 4 with rows that all print 0, move left and go
\* to 0, whose machine never halts
C24_Witness ==
    /\ BeaverReturned
    /\ beaver.n = 2
    /\ result[1].best = 4
    /\ ~atLeastOneHaltState(result[1].input.MConfigurations)
    /\ ~Attains(result[1].input.MConfigurations, 4)
    /\ Attains(beaver.attained, 4)

-----------------------------------------------------------------------------
(* expandStandardOperations called on its own: a list of operations is      *)
(* split into print operations and move operations, and the list and the    *)
(* pairs are run on the same tape                                           *)

MaxOperations == 3

RECURSIVE ListsUpTo(_, _)
ListsUpTo(set, n) ==
    IF n = 0 THEN { <<>> }
    ELSE LET shorter == ListsUpTo(set, n - 1)
         IN shorter \cup { Append(l, x) : l \in shorter, x \in set }

OperationLists == ListsUpTo({opR, opL, opE, opP0, opP1}, MaxOperations)

\* The creator as standardize has it when it comes to the operations of a
\* row: the blank is interned
CreatorAtOperations ==
    NewMConfigurationSymbol(
        NewCreator(MachineInput(<<>>, <<>>, <<>>, <<sym0, sym1>>, <<>>)), none).s

\* A machine on a square of a tape, to run operations on
MachineOn(tape, square) ==
    [mConfigurations |-> <<>>, currentMConfigurationName |-> nameB,
     noneSymbol |-> none, tape |-> tape, scannedSquare |-> square, halted |-> FALSE]

\* The loop of Move over a list of operations
RECURSIVE PerformOperations(_, _)
PerformOperations(mc, operations) ==
    IF operations = <<>> THEN mc
    ELSE PerformOperations(PerformOperation(mc, Head(operations)), Tail(operations))

\* One (print, move) pair run as the row standardize makes of it: the square
\* is scanned, the print operation prints the symbol its canonical name
\* stands for, or the scanned symbol when it is the bare P, and the move
\* operation moves the head, N leaving it where it is
PerformPair(mc, printOperation, moveOperation, sm) ==
    LET sc == Scan(mc)
        printed == IF printOperation = <<printOp>> THEN sc.symbol
                   ELSE Translate(sm, StrFrom(printOperation, 1))
    IN PerformOperation(PerformOperation(sc.m, <<printOp>> \o printed), moveOperation)

RECURSIVE PerformPairs(_, _, _, _)
PerformPairs(mc, prints, moves, sm) ==
    IF prints = <<>> \/ moves = <<>> THEN mc
    ELSE PerformPairs(PerformPair(mc, Head(prints), Head(moves), sm),
                      Tail(prints), Tail(moves), sm)

\* The tape and the head of a machine once the scanned square is on the tape
TapeAndHead(mc) ==
    LET m1 == ExtendTapeIfNeeded(mc)
    IN [tape |-> m1.tape, scannedSquare |-> m1.scannedSquare]

OpsInit ==
    /\ \E operations \in OperationLists, tape \in {<<sym1>>, <<sym0, sym1>>},
          square \in 0..1 :
          argument = [operations |-> operations, tape |-> tape, square |-> square]
    /\ result = <<>>
    /\ input = <<>> /\ m = <<>> /\ history = <<>> /\ log = <<>>
    /\ stdTable = <<>> /\ stdMachine = <<>> /\ decoded = <<>> /\ decMachine = <<>>
    /\ digits = <<>> /\ reencoded = <<>>
    /\ compiler = <<>> /\ stack = <<>> /\ cursor = 0 /\ compiled = <<>>
    /\ backing = <<>> /\ peers = <<>> /\ beaver = <<>>

\* expandStandardOperations is called
ExpandCall ==
    /\ result = <<>>
    /\ result' = <<ExpandStandardOperations(CreatorAtOperations, argument.operations)>>
    /\ UNCHANGED <<input, m, history, log, stdTable, stdMachine, decoded, decMachine,
                   digits, reencoded, Compilation, argument, backing, peers, beaver>>

OpsNext == ExpandCall

SpecOps == OpsInit /\ [][OpsNext]_vars

Expanded == result # <<>>

\* The list and the pairs leave the tape and the head the same
SameEffect ==
    TapeAndHead(PerformOperations(MachineOn(argument.tape, argument.square),
                                  argument.operations))
    = TapeAndHead(PerformPairs(MachineOn(argument.tape, argument.square),
                               result[1].prints, result[1].moves,
                               ReverseMConfigurationSymbols(result[1].s)))

\* A print or erase operation that comes right after a print or erase
ConsecutivePrints(operations) ==
    \E i \in 1..(Len(operations) - 1) :
        /\ operations[i][1] \in {printOp, eraseOp}
        /\ operations[i + 1][1] \in {printOp, eraseOp}

\* C25: the print list and the move list have the same length, the pairs
\* run in order do to the tape and the head what the operations run in order
\* do, and the empty list gives the one pair (P, N)
C25_PairsDoWhatOperationsDo ==
    Expanded =>
       /\ Len(result[1].prints) = Len(result[1].moves)
       /\ SameEffect
       /\ argument.operations = <<>> =>
             (result[1].prints = <<<<printOp>>>> /\ result[1].moves = <<moveN>>)

\* C25, as the code has it: the lists have the same length and the empty
\* list gives (P, N); the effect is the same when no print or erase comes
\* right after a print or erase
C25_PairsDoWhatSeparatedOperationsDo ==
    Expanded =>
       /\ Len(result[1].prints) = Len(result[1].moves)
       /\ ~ConsecutivePrints(argument.operations) => SameEffect
       /\ argument.operations = <<>> =>
             (result[1].prints = <<<<printOp>>>> /\ result[1].moves = <<moveN>>)

\* The operations P0, P1 on a square that holds 1 leave 1, and the one pair
\* made of them prints 0
C25_Witness ==
    /\ Expanded
    /\ argument.operations = <<opP0, opP1>>
    /\ argument.tape = <<sym1>>
    /\ argument.square = 0
    /\ Len(result[1].prints) = 1
    /\ result[1].moves = <<moveN>>
    /\ ~SameEffect

-----------------------------------------------------------------------------
(* The machine of a table and the machine of its canonical table moved in   *)
(* step: for one move of the first, the second makes as many moves as the   *)
(* row applied has print/move pairs                                         *)

\* Rows whose operations hold a print right after a print
consecutivePrints ==
    << MConfiguration(nameB, <<none>>, <<opP0, opP1, opR>>, nameB),
       MConfiguration(nameB, <<sym1>>, <<opR, opE, opP0>>, nameB) >>

\* A table that names 0 only, for tapes that hold 1 as well
zeroOnly ==
    << MConfiguration(nameB, <<sym0>>, <<opR>>, nameB),
       MConfiguration(nameB, <<none>>, <<opP0, opL, opL>>, nameB) >>

\* The symbols a row scans for and prints
RowSymbols(row) ==
    { row.Symbols[i] : i \in { j \in DOMAIN row.Symbols :
                                 /\ row.Symbols[j] # any
                                 /\ ~StrContains(row.Symbols[j], not) } }
    \cup { StrFrom(row.Symbols[i], 1) :
             i \in { j \in DOMAIN row.Symbols : StrContains(row.Symbols[j], not) } }
    \cup { StrFrom(row.Operations[i], 1) :
             i \in { j \in DOMAIN row.Operations : row.Operations[j][1] = printOp } }

\* Every symbol scanned for, printed or on the tape at the start is one of
\* PossibleSymbols or the blank
InVocabulary(in) ==
    LET vocabulary == { in.PossibleSymbols[i] : i \in DOMAIN in.PossibleSymbols }
                      \cup { none }
    IN /\ \A i \in DOMAIN in.MConfigurations :
             RowSymbols(in.MConfigurations[i]) \subseteq vocabulary
       /\ \A i \in DOMAIN in.Tape : in.Tape[i] \in vocabulary

SimInputs ==
    { in \in { MachineInput(t, tape, start, <<sym0, sym1>>, <<>>) :
                 t \in StdTables \cup { consecutivePrints, zeroOnly },
                 tape \in StdTapes, start \in {<<>>, nameC} } :
        InVocabulary(in) }

SimInit ==
    /\ input \in SimInputs
    /\ m = NewMachine(input)
    /\ stdTable \in { NewStandardTable(input, order) :
                    order \in SymbolOrders(StandardizeCreator(input)) }
    /\ Constructible(stdTable.MachineInput)
    /\ stdMachine = NewMachine(stdTable.MachineInput)
    /\ history = <<>>
    /\ log = <<>>
    /\ decoded = <<>> /\ decMachine = <<>> /\ digits = <<>> /\ reencoded = <<>>
    /\ compiler = <<>> /\ stack = <<>> /\ cursor = 0 /\ compiled = <<>>
    /\ argument = <<>> /\ result = <<>> /\ backing = <<>> /\ peers = <<>> /\ beaver = <<>>

\* The number of print/move pairs of the row a move applied: 1 for a move
\* that applied no row
PairsOf(rec) ==
    IF rec.row = 0 THEN 1
    ELSE Len(ExpandStandardOperations(StandardizeCreator(input),
                input.MConfigurations[rec.row].Operations).prints)

\* m.Move(), and as many calls of Move() of the canonical machine as the row
\* has pairs
SimMove ==
    /\ Len(history) < MaxMoves
    /\ LET rec == MoveRecord(m)
       IN /\ m' = rec.after
          /\ log' = <<rec>>
          /\ stdMachine' = MoveNFrom(stdMachine, 1, PairsOf(rec), <<>>).m
          /\ history' = Append(history, [call |-> "Move", n |-> PairsOf(rec), ret |-> 0])
    /\ UNCHANGED <<input, stdTable, decoded, decMachine, digits, reencoded,
                   Compilation, Apart>>

SimNext == SimMove

SpecSim == SimInit /\ [][SimNext]_vars

\* The canonical name of an m-configuration of the input
Renamed(name) == NewMConfigurationName(StandardizeCreator(input), name).v

\* The canonical machine shows what the machine of the input shows
InStep ==
    /\ TranslateTape(stdTable.SymbolMap, stdMachine.tape) = TapeString(m)
    /\ stdMachine.scannedSquare = m.scannedSquare
    /\ stdMachine.currentMConfigurationName = Renamed(m.currentMConfigurationName)
    /\ stdMachine.halted = m.halted

\* C26: after every move of the machine of the input and the moves of the
\* canonical machine that go with it, one for each print/move pair of the
\* row applied, the translated tape, the scanned square and the renamed
\* m-configuration of the canonical machine are those of the machine of the
\* input, and the one has halted exactly when the other has
C26_SimulatesUpToStuttering ==
    Len(history) > 0 => InStep

\* Every symbol of the tape of the input has a canonical name
TapeInterned ==
    \A i \in DOMAIN input.Tape :
        MapHas(StandardizeCreator(input).mConfigurationSymbols, input.Tape[i])

\* The canonical machine starts in the canonical name of the m-configuration
\* the machine of the input starts in
StartsRenamed ==
    NewMachine(stdTable.MachineInput).currentMConfigurationName
    = Renamed(NewMachine(input).currentMConfigurationName)

\* C26, as the code has it: the machines stay in step when no row of the
\* table prints or erases right after a print or erase, every symbol of the
\* tape at the start was met by the canonicalizer, and the canonical machine
\* starts where the machine of the input starts
C26_SimulatesSeparatedOperations ==
    (/\ Len(history) > 0
     /\ TapeInterned
     /\ StartsRenamed
     /\ \A i \in DOMAIN input.MConfigurations :
           ~ConsecutivePrints(input.MConfigurations[i].Operations))
    => InStep

\* The row P0, P1, R was applied once and the canonical machine made its two
\* moves: the machine of the input has printed 1, the canonical machine 0
C26_Witness ==
    /\ input.MConfigurations = consecutivePrints
    /\ input.Tape = <<>>
    /\ Len(history) = 1
    /\ history[1].n = 2
    /\ TapeString(m) = sym1
    /\ TranslateTape(stdTable.SymbolMap, stdMachine.tape) = sym0
    /\ stdMachine.scannedSquare = m.scannedSquare

-----------------------------------------------------------------------------
(* expandStandardSymbols called on the symbols of the first row of a table, *)
(* next to findMConfiguration's test of the same row                        *)

MaxSymbols == 2

\* A symbol spelled like a canonical symbol name
symS1 == <<"S", "1">>

SymbolEntries == { none, sym0, sym1, any, not \o sym0, not \o sym1 }

SymbolLists == ListsUpTo(SymbolEntries, MaxSymbols)

Vocabularies == { <<sym0, sym1>>, <<sym0, sym1, symX>>, <<sym0, symS1>> }

\* PossibleSymbols plus blank
VocabularyOf(in) ==
    { in.PossibleSymbols[i] : i \in DOMAIN in.PossibleSymbols }
    \cup { NewMachine(in).noneSymbol }

SymbolsInit ==
    /\ \E symbols \in SymbolLists, possible \in Vocabularies, ns \in {<<>>, underscore} :
          argument = MachineInput(<<MConfiguration(nameB, symbols, <<>>, nameB)>>,
                                  <<>>, <<>>, possible, ns)
    /\ result = <<>>
    /\ input = <<>> /\ m = <<>> /\ history = <<>> /\ log = <<>>
    /\ stdTable = <<>> /\ stdMachine = <<>> /\ decoded = <<>> /\ decMachine = <<>>
    /\ digits = <<>> /\ reencoded = <<>>
    /\ compiler = <<>> /\ stack = <<>> /\ cursor = 0 /\ compiled = <<>>
    /\ backing = <<>> /\ peers = <<>> /\ beaver = <<>>

\* standardize interns the blank and calls expandStandardSymbols for the row
ExpandSymbolsCall ==
    /\ result = <<>>
    /\ result' = <<ExpandStandardSymbols(
                      NewMConfigurationSymbol(NewCreator(argument), none).s,
                      argument.MConfigurations[1].Symbols)>>
    /\ UNCHANGED <<input, m, history, log, stdTable, stdMachine, decoded, decMachine,
                   digits, reencoded, Compilation, argument, backing, peers, beaver>>

SymbolsNext == ExpandSymbolsCall

SpecSymbols == SymbolsInit /\ [][SymbolsNext]_vars

\* How often the canonical name of a symbol is in the list returned
TimesListed(symbol) ==
    LET interned == result[1].s.mConfigurationSymbols
        list == result[1].v
    IN IF MapHas(interned, symbol)
       THEN Cardinality({ i \in DOMAIN list : list[i] = interned[symbol] })
       ELSE 0

\* findMConfiguration's test of the row for a scanned symbol
Accepted(symbol) ==
    RowAccepts(NewMachine(argument), argument.MConfigurations[1], symbol)

\* No symbol of PossibleSymbols is spelled like a canonical symbol name
PlainVocabulary ==
    \A i \in DOMAIN argument.PossibleSymbols :
        ~IsStandardSymbol(argument.PossibleSymbols[i])

\* C27: the canonical name of a symbol of PossibleSymbols or of the blank is
\* in the list expandStandardSymbols returns for a row exactly when
\* findMConfiguration accepts the symbol for the row
C27_SamePatternMatches ==
    result # <<>> =>
       \A symbol \in VocabularyOf(argument) : (TimesListed(symbol) > 0) <=> Accepted(symbol)

\* C27, as the code has it: the two agree when no symbol of PossibleSymbols
\* is spelled like a canonical symbol name
C27_SamePatternMatchesPlain ==
    (result # <<>> /\ PlainVocabulary) =>
       \A symbol \in VocabularyOf(argument) : (TimesListed(symbol) > 0) <=> Accepted(symbol)

\* The row !1 over the symbols 0 and S1: 0 was listed as S1, and the symbol
\* S1, which findMConfiguration accepts for the row, was taken for listed
C27_Witness ==
    /\ result # <<>>
    /\ argument.MConfigurations[1].Symbols = <<not \o sym1>>
    /\ argument.PossibleSymbols = <<sym0, symS1>>
    /\ result[1].v = <<symS1>>
    /\ Accepted(symS1)
    /\ TimesListed(symS1) = 0

\* The entries of the row that stand for a symbol: the symbol itself, `*`
\* and `!x` for a symbol of PossibleSymbols that no `!x` of the row names
EntriesFor(symbol) ==
    LET symbols == argument.MConfigurations[1].Symbols
        possible == SliceContains(argument.PossibleSymbols, symbol)
    IN { i \in DOMAIN symbols :
           IF StrContains(symbols[i], not)
           THEN possible /\ ~SliceContains(NotSymbols(symbols), symbol)
           ELSE IF symbols[i] = any THEN possible
           ELSE symbols[i] = symbol }

\* C28: the list of canonical symbols made for a row holds the name of each
\* symbol the row matches exactly once
C28_EachMatchingSymbolOnce ==
    result # <<>> =>
       \A symbol \in VocabularyOf(argument) : Accepted(symbol) => TimesListed(symbol) = 1

\* C28, as the code has it: a symbol is listed once for every entry of the
\* row that stands for it
C28_OncePerEntry ==
    (result # <<>> /\ PlainVocabulary) =>
       \A symbol \in VocabularyOf(argument) :
           TimesListed(symbol) = Cardinality(EntriesFor(symbol))

\* The row *, 0 over the symbols 0 and 1 lists 0 twice
C28_Witness ==
    /\ result # <<>>
    /\ argument.MConfigurations[1].Symbols = <<any, sym0>>
    /\ argument.PossibleSymbols = <<sym0, sym1>>
    /\ TimesListed(sym0) = 2
    /\ TimesListed(sym1) = 1
    /\ Len(result[1].v) = 3

-----------------------------------------------------------------------------
(* The hidden m-configurations of a canonical table *)

\* The canonical names given to the m-configurations of the input
GivenNames ==
    LET names == StandardizeCreator(input).mConfigurationNames
    IN { names[name] : name \in DOMAIN names }

\* The names newHiddenMConfigurationName made: those of canonical rows that
\* stand for no m-configuration of the input
HiddenNames == { StandardRowsOf[i].Name : i \in DOMAIN StandardRowsOf } \ GivenNames

RowsOfName(name) == { i \in DOMAIN StandardRowsOf : StandardRowsOf[i].Name = name }

\* The canonical names of the symbols of PossibleSymbols, and the blank of
\* the canonical machine
HiddenSymbols ==
    { SymbolOf(StandardizeCreator(input), input.PossibleSymbols[i]) :
        i \in DOMAIN input.PossibleSymbols }
    \cup { stdTable.MachineInput.NoneSymbol }

\* The number that ends a canonical name
NumberOf(name) == Atoi(StrFrom(name, 1))

\* A hidden m-configuration has one row for each symbol, and its rows share
\* their move and their final m-configuration, which is a later hidden
\* m-configuration or an m-configuration of the input
WellCovered(name) ==
    /\ \A symbol \in HiddenSymbols :
          Cardinality({ i \in RowsOfName(name) :
                          StandardRowsOf[i].Symbols = <<symbol>> }) = 1
    /\ \A i, j \in RowsOfName(name) :
          /\ StandardRowsOf[i].Operations[2] = StandardRowsOf[j].Operations[2]
          /\ StandardRowsOf[i].FinalMConfiguration = StandardRowsOf[j].FinalMConfiguration
    /\ \A i \in RowsOfName(name) :
          LET final == StandardRowsOf[i].FinalMConfiguration
          IN \/ final \in GivenNames
             \/ final \in HiddenNames /\ NumberOf(final) > NumberOf(name)

\* The canonical machine is in a hidden m-configuration, on a square that
\* holds a symbol of PossibleSymbols or the blank
InHidden ==
    /\ ~stdMachine.halted
    /\ stdMachine.currentMConfigurationName \in HiddenNames
    /\ Scan(stdMachine).symbol \in HiddenSymbols

\* C29: every hidden m-configuration of the canonical table has exactly one
\* row for each symbol of PossibleSymbols and for the blank, all with the
\* same move and the same final m-configuration; the canonical machine that
\* scans such a symbol in a hidden m-configuration does not halt on its next
\* move and goes on to that final m-configuration. The table is made once,
\* before the first move, and is looked at then
C29_HiddenStatesCoverVocabulary ==
    /\ Len(history) = 0 => \A name \in HiddenNames : WellCovered(name)
    /\ InHidden =>
          /\ ~Move(stdMachine).halted
          /\ \A i \in RowsOfName(stdMachine.currentMConfigurationName) :
                Move(stdMachine).currentMConfigurationName
                = StandardRowsOf[i].FinalMConfiguration

\* The canonical machine has come to a hidden m-configuration on a blank
\* square, and its next move takes it on
C29_Witness ==
    /\ Len(history) > 0
    /\ InHidden
    /\ Scan(stdMachine).symbol = stdTable.MachineInput.NoneSymbol
    /\ Cardinality(RowsOfName(stdMachine.currentMConfigurationName)) = 3
    /\ ~Move(stdMachine).halted
    /\ Move(stdMachine).currentMConfigurationName \in GivenNames

-----------------------------------------------------------------------------
(* The names and the marks of the signatures NewAbbreviatedTable meets *)

\* The text a signature is kept under in the two maps of the compiler
KeyOf(frame) == ComposeMFunction(frame.name, frame.params)

\* interpretMFunction goes on past its test of wasAlreadyInterpreted: a new
\* activation is on the stack
Expanding == Len(stack') > Len(stack)

\* C30: a signature keeps the one name it was given, two signatures never
\* have the same name, a signature once marked stays marked, and the rows
\* that define a signature are gone through only for a signature that was
\* not marked before, which is marked from then on and is told from every
\* other signature by its text
C30_OneNameOneExpansion ==
    [][LET names == compiler.newMConfigurationNames
           namesAfter == compiler'.newMConfigurationNames
           marked == DOMAIN compiler.wasAlreadyInterpretedMap
           markedAfter == DOMAIN compiler'.wasAlreadyInterpretedMap
       IN /\ \A key \in DOMAIN names :
                key \in DOMAIN namesAfter /\ namesAfter[key] = names[key]
          /\ \A key1, key2 \in DOMAIN namesAfter :
                namesAfter[key1] = namesAfter[key2] => key1 = key2
          /\ marked \subseteq markedAfter
          /\ Expanding =>
                /\ KeyOf(Top') \notin marked
                /\ KeyOf(Top') \in markedAfter
                /\ Top'.newMConfigurationName = namesAfter[KeyOf(Top')]
                /\ ParseMFunction(KeyOf(Top')).name = Top'.name
                /\ ParseMFunction(KeyOf(Top')).params = Top'.params]_vars

\* An m-function that calls itself has been compiled: its signature was
\* reached again and given the name it had, and more signatures were named
\* than m-configurations the table has plain rows for
C30_Witness ==
    /\ Returned
    /\ Cardinality(DOMAIN compiler.newMConfigurationNames) >= 3
    /\ DOMAIN compiler.wasAlreadyInterpretedMap = DOMAIN compiler.newMConfigurationNames
    /\ \E i \in DOMAIN EmittedRows :
          /\ EmittedRows[i].Name = EmittedRows[i].FinalMConfiguration
          /\ \E key \in DOMAIN compiler.newMConfigurationNames :
                /\ compiler.newMConfigurationNames[key] = EmittedRows[i].Name
                /\ StrContains(key, <<functionOpen>>)

-----------------------------------------------------------------------------
(* The final m-configuration of the rows NewAbbreviatedTable emits          *)

\* The names of the invocations, the nested ones included, that a final
\* m-configuration is written with
RECURSIVE InvocationNames(_)
InvocationNames(text) ==
    LET parsed == ParseMFunction(text)
    IN IF Len(parsed.params) = 0 THEN {}
       ELSE {parsed.name}
            \cup UNION { InvocationNames(parsed.params[i]) : i \in DOMAIN parsed.params }

\* The invocation a final m-configuration stands for under a binding: a name
\* that is bound stands for its value, and an invocation for the invocation of
\* what its arguments stand for
RECURSIVE InvocationBound(_, _)
InvocationBound(text, binding) ==
    LET parsed == ParseMFunction(text)
    IN IF Len(parsed.params) = 0
       THEN IF text \in DOMAIN binding THEN binding[text] ELSE text
       ELSE ComposeMFunction(parsed.name,
                [i \in DOMAIN parsed.params |-> InvocationBound(parsed.params[i], binding)])

\* The final m-configuration of the definition row mentions a bound name
MentionsBound(row, binding) ==
    InvocationBound(row.FinalMConfiguration, binding)
        # InvocationBound(row.FinalMConfiguration, <<>>)

\* The emitted row goes on to the name assigned to the invocation its
\* definition row stands for; a bound name that is the name of an invocation
\* with arguments is left aside
FinalAgrees(emitted, row, binding) ==
    /\ SymbolsAgree(emitted, row, binding)
    /\ InvocationNames(row.FinalMConfiguration) \cap DOMAIN binding = {}
          => /\ InvocationBound(row.FinalMConfiguration, binding) \in Named
             /\ emitted.FinalMConfiguration =
                    PlainNameOf(InvocationBound(row.FinalMConfiguration, binding))

\* C31: the final m-configuration of every emitted row is the name assigned
\* to the invocation that the final m-configuration of its definition row
\* stands for once the arguments of the caller are put for the declared
\* parameters, those inside arguments that are invocations included; this
\* holds for a final m-configuration that is a declared parameter and for an
\* invocation with declared parameters among its arguments at any depth
C31_FinalStateSubstituted ==
    Returned =>
       /\ \A i \in DOMAIN EmittedRows : ComesFrom(EmittedRows[i], FinalAgrees)
       /\ EveryRowEmitted(FinalAgrees)

\* The example of the guide has been compiled into three m-configurations:
\* b goes on to f(f(b,0),0), which prints 0, moves right and goes on to
\* f(b,0), which does the same and goes back to b
C31_Witness ==
    /\ Returned
    /\ input.MConfigurations = guideExample
    /\ Len(EmittedRows) = 3
    /\ LET outer == <<"f", "(", "f", "(", "b", ",", "0", ")", ",", "0", ")">>
           inner == <<"f", "(", "b", ",", "0", ")">>
       IN /\ EmittedRows[1] = MConfiguration(PlainNameOf(nameB), <<any>>, <<opR>>,
                                             PlainNameOf(outer))
          /\ EmittedRows[2] = MConfiguration(PlainNameOf(outer), <<any>>, <<opP0, opR>>,
                                             PlainNameOf(inner))
          /\ EmittedRows[3] = MConfiguration(PlainNameOf(inner), <<any>>, <<opP0, opR>>,
                                             PlainNameOf(nameB))
          /\ Cardinality({PlainNameOf(nameB), PlainNameOf(outer), PlainNameOf(inner)}) = 3

-----------------------------------------------------------------------------
(* The names NewStandardTable gives to m-configurations *)

\* The creator when standardize returns: the rows have been gone through and
\* the starting m-configuration has been named
CreatorAtReturn ==
    LET s == StandardizeCreator(input)
    IN IF Len(input.StartingMConfiguration) = 0 THEN s
       ELSE NewMConfigurationName(s, input.StartingMConfiguration).s

\* The names of m-configurations the input is written with
OriginalNames ==
    { input.MConfigurations[i].Name : i \in DOMAIN input.MConfigurations }
    \cup { input.MConfigurations[i].FinalMConfiguration : i \in DOMAIN input.MConfigurations }
    \cup (IF Len(input.StartingMConfiguration) = 0 THEN {}
          ELSE {input.StartingMConfiguration})

CanonicalNameOf(name) == CreatorAtReturn.mConfigurationNames[name]

\* The canonical names of the m-configurations of the input
RenamedNames == { CanonicalNameOf(name) : name \in DOMAIN CreatorAtReturn.mConfigurationNames }

\* The canonical names the returned table is written with
AppearingNames ==
    { StandardRowsOf[i].Name : i \in DOMAIN StandardRowsOf }
    \cup { StandardRowsOf[i].FinalMConfiguration : i \in DOMAIN StandardRowsOf }
    \cup (IF Len(stdTable.MachineInput.StartingMConfiguration) = 0 THEN {}
          ELSE {stdTable.MachineInput.StartingMConfiguration})

\* The symbols one row of the input is made canonical rows for, and the
\* number of canonical moves its operations are split into
SymbolsExpanded(row) == ExpandStandardSymbols(StandardizeCreator(input), row.Symbols).v
MovesExpanded(row) ==
    Len(ExpandStandardOperations(StandardizeCreator(input), row.Operations).prints)

\* The number of hidden m-configurations the rows from i on call for: one for
\* each symbol and each move but the last
RECURSIVE HiddenCalledFor(_)
HiddenCalledFor(i) ==
    IF i > Len(input.MConfigurations) THEN 0
    ELSE Len(SymbolsExpanded(input.MConfigurations[i]))
            * (MovesExpanded(input.MConfigurations[i]) - 1)
         + HiddenCalledFor(i + 1)

\* The m-configuration of the input that a chain of hidden m-configurations
\* leads to
RECURSIVE LeadsTo(_, _)
LeadsTo(name, steps) ==
    IF name \in RenamedNames \/ steps = 0 \/ RowsOfName(name) = {} THEN name
    ELSE LeadsTo(StandardRowsOf[CHOOSE i \in RowsOfName(name) : TRUE].FinalMConfiguration,
                 steps - 1)

\* Every reference to a name of the input is written with the one canonical
\* name of that name: the starting m-configuration, the name of the canonical
\* rows made for a row, and the final m-configuration they lead to
ReferencesShareName ==
    /\ stdTable.MachineInput.StartingMConfiguration
          = IF Len(input.StartingMConfiguration) = 0 THEN <<>>
            ELSE CanonicalNameOf(input.StartingMConfiguration)
    /\ \A i \in DOMAIN StandardRowsOf :
          StandardRowsOf[i].Name \in RenamedNames =>
             \E j \in DOMAIN input.MConfigurations :
                /\ CanonicalNameOf(input.MConfigurations[j].Name) = StandardRowsOf[i].Name
                /\ CanonicalNameOf(input.MConfigurations[j].FinalMConfiguration)
                      = LeadsTo(StandardRowsOf[i].FinalMConfiguration, Len(StandardRowsOf))
    /\ \A j \in DOMAIN input.MConfigurations :
          SymbolsExpanded(input.MConfigurations[j]) # <<>> =>
             \E i \in DOMAIN StandardRowsOf :
                /\ StandardRowsOf[i].Name = CanonicalNameOf(input.MConfigurations[j].Name)
                /\ LeadsTo(StandardRowsOf[i].FinalMConfiguration, Len(StandardRowsOf))
                      = CanonicalNameOf(input.MConfigurations[j].FinalMConfiguration)

\* A name of the input that the table can be seen to use: the starting
\* m-configuration, or a name of a row that canonical rows are made for
Referenced(name) ==
    \/ name = input.StartingMConfiguration
    \/ \E j \in DOMAIN input.MConfigurations :
          /\ SymbolsExpanded(input.MConfigurations[j]) # <<>>
          /\ name \in { input.MConfigurations[j].Name,
                        input.MConfigurations[j].FinalMConfiguration }

\* C32: NewStandardTable gives every name of the input, be it the name of a
\* row, a final m-configuration or the starting m-configuration, one
\* canonical name that all its references are written with, and no two names
\* of the input the same one; every hidden m-configuration has a name of its
\* own that is no name of the input's; and the names given are q1, ..., qN
\* with none left out, the table being written with no other name and with
\* every one of them that a row or the start refers to. The table is made
\* once, before the first move, and is looked at then
C32_NamesInjectiveFreshGapless ==
    Len(history) = 0 =>
       /\ DOMAIN CreatorAtReturn.mConfigurationNames = OriginalNames
       /\ \A a, b \in OriginalNames : a # b => CanonicalNameOf(a) # CanonicalNameOf(b)
       /\ ReferencesShareName
       /\ Cardinality(HiddenNames) = HiddenCalledFor(1)
       /\ HiddenNames \cap RenamedNames = {}
       /\ LET given == RenamedNames \cup HiddenNames
          IN /\ given = { mConfigurationNamePrefix \o Itoa(number) :
                            number \in 1..Cardinality(given) }
             /\ Cardinality(given) = Cardinality(OriginalNames) + HiddenCalledFor(1)
             /\ AppearingNames \subseteq given
             /\ HiddenNames \subseteq AppearingNames
             /\ \A name \in OriginalNames :
                   Referenced(name) => CanonicalNameOf(name) \in AppearingNames

\* A table whose row takes three moves for each of two symbols, started in
\* the m-configuration the row goes on to, which has no row, has been made
\* canonical: two names of the input and four hidden m-configurations are q1
\* to q6
C32_Witness ==
    /\ Len(history) = 0
    /\ Cardinality(OriginalNames) = 2
    /\ input.StartingMConfiguration \notin
          { input.MConfigurations[i].Name : i \in DOMAIN input.MConfigurations }
    /\ Cardinality(HiddenNames) = 4
    /\ RenamedNames \cup HiddenNames
          = { mConfigurationNamePrefix \o Itoa(number) : number \in 1..6 }
    /\ \E i \in DOMAIN StandardRowsOf :
          /\ StandardRowsOf[i].Name \in RenamedNames
          /\ StandardRowsOf[i].FinalMConfiguration \in HiddenNames

-----------------------------------------------------------------------------
(* The names NewStandardTable gives to symbols *)

\* The symbols an entry of a symbol list stands for, in the order of
\* PossibleSymbols
EntrySymbols(entry, excluded) ==
    IF StrContains(entry, not)
    THEN SelectSeq(input.PossibleSymbols, LAMBDA symbol : symbol \notin excluded)
    ELSE IF entry = any THEN input.PossibleSymbols
    ELSE <<entry>>

\* The symbols an operation writes: the symbol of a print, the blank for E
OperationSymbols(operation) ==
    IF operation[1] = printOp THEN <<StrFrom(operation, 1)>>
    ELSE IF operation[1] = eraseOp THEN <<none>>
    ELSE <<>>

\* The symbols one row of the input brings up, in order: those its symbol
\* list stands for, those its operations write, and, when it takes more than
\* one canonical move for some symbol, those of PossibleSymbols and the blank,
\* which the rows of its hidden m-configurations are made for
SymbolsBroughtUp(row) ==
    LET excluded == { StrFrom(row.Symbols[i], 1) :
                        i \in { j \in DOMAIN row.Symbols : StrContains(row.Symbols[j], not) } }
        listed == Concat([i \in DOMAIN row.Symbols |-> EntrySymbols(row.Symbols[i], excluded)])
        written == Concat([i \in DOMAIN row.Operations |->
                              OperationSymbols(row.Operations[i])])
    IN listed \o written
       \o (IF listed # <<>> /\ MovesExpanded(row) > 1
           THEN Append(input.PossibleSymbols, none) ELSE <<>>)

\* The symbols NewStandardTable comes upon, in order: the blank it starts
\* with, then those of the rows
SymbolsInSight ==
    <<none>> \o Concat([i \in DOMAIN input.MConfigurations |->
                           SymbolsBroughtUp(input.MConfigurations[i])])

\* Where a symbol is first come upon
FirstSight(symbol) ==
    CHOOSE i \in DOMAIN SymbolsInSight :
       /\ SymbolsInSight[i] = symbol
       /\ \A j \in 1..(i - 1) : SymbolsInSight[j] # symbol

\* The number of distinct symbols come upon before a symbol is
SeenBefore(symbol) ==
    Cardinality({ SymbolsInSight[j] : j \in 1..(FirstSight(symbol) - 1) })

InternedSymbols == CreatorAtReturn.mConfigurationSymbols

\* The symbols are named S0, S1, ... in the order they are first come upon,
\* one name for a symbol wherever it occurs, and the SymbolMap returned takes
\* each of these names back to its symbol
InternedInOrder ==
    /\ DOMAIN InternedSymbols = Range(SymbolsInSight)
    /\ \A symbol \in DOMAIN InternedSymbols :
          InternedSymbols[symbol] = mConfigurationSymbolPrefix \o Itoa(SeenBefore(symbol))
    /\ DOMAIN stdTable.SymbolMap
          = { mConfigurationSymbolPrefix \o Itoa(number) :
                number \in 0..(Cardinality(DOMAIN InternedSymbols) - 1) }
    /\ \A symbol \in DOMAIN InternedSymbols :
          stdTable.SymbolMap[InternedSymbols[symbol]] = symbol
    /\ \A i \in DOMAIN StandardRowsOf :
          /\ StandardRowsOf[i].Symbols[1] \in DOMAIN stdTable.SymbolMap
          /\ StrFrom(StandardRowsOf[i].Operations[1], 1) \in DOMAIN stdTable.SymbolMap

\* The blank of the machine of the input
BlankOfInput == NewMachine(input).noneSymbol

\* C33: the blank of the input is S0, every other symbol has the next unused
\* name S<k> in the order the symbols are first come upon, a symbol has the
\* same name wherever it occurs, and the SymbolMap returned takes each of S0
\* to S(k-1) back to a symbol of its own. The table is made once, before the
\* first move, and is looked at then
C33_SymbolsInternedBlankFirst ==
    Len(history) = 0 =>
       /\ InternedInOrder
       /\ BlankOfInput \in DOMAIN InternedSymbols
       /\ InternedSymbols[BlankOfInput] = standardBlank
       /\ stdTable.SymbolMap[standardBlank] = BlankOfInput

\* C33, as the code has it: the same, with S0 the name of the space whatever
\* blank the input names; the blank an input names instead is named like any
\* other symbol when it is come upon
C33_SymbolsInternedSpaceFirst ==
    Len(history) = 0 =>
       /\ InternedInOrder
       /\ InternedSymbols[none] = standardBlank
       /\ stdTable.SymbolMap[standardBlank] = none
       /\ ~BlankOverridden => BlankOfInput = none

\* A table written for the blank _ has been made canonical: _ is S1, 0 is S2,
\* and S0 is the space, which the machine of the input never reads or writes
C33_Witness ==
    /\ Len(history) = 0
    /\ input.MConfigurations = underscoreBlank
    /\ BlankOfInput = underscore
    /\ InternedSymbols[underscore] = mConfigurationSymbolPrefix \o Itoa(1)
    /\ InternedSymbols[sym0] = mConfigurationSymbolPrefix \o Itoa(2)
    /\ stdTable.SymbolMap[standardBlank] = none
    /\ \A i \in DOMAIN input.MConfigurations :
          /\ none \notin Range(input.MConfigurations[i].Symbols)
          /\ <<eraseOp>> \notin Range(input.MConfigurations[i].Operations)

-----------------------------------------------------------------------------
(* Where the machines of a table and of its compiled forms start *)

\* The m-configuration a table starts in: the one it names, or that of its
\* first row
StartOfInput ==
    IF Len(input.StartingMConfiguration) # 0 THEN input.StartingMConfiguration
    ELSE input.MConfigurations[1].Name

\* A canonical table was made of the input and no machine has moved
Canonicalized == stdTable # <<>> /\ Len(history) = 0

\* A machine was built from the table NewAbbreviatedTable returned and has
\* not moved
CompiledAndBuilt == Compiled /\ m # <<>> /\ Len(history) = 0

\* The first row of the input that defines no m-function
FirstPlainRow ==
    CHOOSE i \in DOMAIN input.MConfigurations :
       /\ ~StrContains(input.MConfigurations[i].Name, <<functionOpen>>)
       /\ \A j \in 1..(i - 1) :
             StrContains(input.MConfigurations[j].Name, <<functionOpen>>)

\* C34: the machine of a table starts in the m-configuration the table
\* names, or else in that of its first row; the machine of the canonical
\* table NewStandardTable returns starts in the canonical name of that
\* m-configuration, and the machine of the table NewAbbreviatedTable returns
\* in the name assigned to it
C34_StartCarriedOver ==
    /\ Canonicalized =>
          /\ m.currentMConfigurationName = StartOfInput
          /\ stdMachine.currentMConfigurationName = CanonicalNameOf(StartOfInput)
    /\ CompiledAndBuilt =>
          /\ StartOfInput \in Named
          /\ m.currentMConfigurationName = PlainNameOf(StartOfInput)

\* C34, as the code has it: a starting m-configuration that is named is
\* carried over by both; when none is named, the canonical machine starts in
\* the m-configuration of the first canonical row, which is the canonical
\* name of the first row of the input only if that row yields a canonical
\* row, and the machine of the compiled table starts in the name assigned to
\* the first row that defines no m-function
C34_StartOfFirstRowReturned ==
    /\ Canonicalized =>
          /\ m.currentMConfigurationName = StartOfInput
          /\ (\/ Len(input.StartingMConfiguration) # 0
              \/ SymbolsExpanded(input.MConfigurations[1]) # <<>>)
                => stdMachine.currentMConfigurationName = CanonicalNameOf(StartOfInput)
          /\ Len(input.StartingMConfiguration) = 0
                => stdMachine.currentMConfigurationName = StandardRowsOf[1].Name
    /\ CompiledAndBuilt =>
          m.currentMConfigurationName
             = PlainNameOf(IF Len(input.StartingMConfiguration) # 0
                           THEN input.StartingMConfiguration
                           ELSE input.MConfigurations[FirstPlainRow].Name)

\* A table that names no starting m-configuration and whose first row stands
\* for no symbol has been made canonical: its machine started in the
\* m-configuration of that row and was halted by its first move, while the
\* canonical machine started in the canonical name of the second row's
\* m-configuration and has moved on
C34_Witness ==
    /\ Len(history) = 1
    /\ Len(input.StartingMConfiguration) = 0
    /\ SymbolsExpanded(input.MConfigurations[1]) = <<>>
    /\ NewMachine(input).currentMConfigurationName = input.MConfigurations[1].Name
    /\ NewMachine(stdTable.MachineInput).currentMConfigurationName
          = CanonicalNameOf(input.MConfigurations[2].Name)
    /\ CanonicalNameOf(input.MConfigurations[2].Name)
          # CanonicalNameOf(input.MConfigurations[1].Name)
    /\ m.halted
    /\ ~stdMachine.halted

-----------------------------------------------------------------------------
(* The tape of the canonical machine and the SymbolMap *)

\* Every square of the tape holds a name the SymbolMap takes back to a symbol
AllTranslatable(tape) ==
    \A i \in DOMAIN tape : tape[i] \in DOMAIN stdTable.SymbolMap

\* C35: every square of the tape of the canonical machine, at the start and
\* after every move, holds a name that the SymbolMap returned takes back to a
\* symbol, so that TranslateTape leaves out no square; and the tape
\* NewStandardTable returns, translated, is the tape of the input
C35_TapeAlwaysTranslatable ==
    /\ AllTranslatable(stdMachine.tape)
    /\ AllTranslatable(stdTable.MachineInput.Tape)
    /\ Len(stdTable.MachineInput.Tape) = Len(input.Tape)
    /\ \A i \in DOMAIN input.Tape :
          Translate(stdTable.SymbolMap, stdTable.MachineInput.Tape[i]) = input.Tape[i]
    /\ TranslateTape(stdTable.SymbolMap, stdTable.MachineInput.Tape) = Concat(input.Tape)

\* C35, as the code has it: the same for an input every symbol of whose tape
\* NewStandardTable came upon in the rows; a square with any other symbol is
\* returned holding the empty string, which is no key of the SymbolMap
C35_MetSymbolsTranslatable ==
    /\ TapeInterned => C35_TapeAlwaysTranslatable
    /\ \A i \in DOMAIN input.Tape :
          input.Tape[i] \notin DOMAIN InternedSymbols
             => stdTable.MachineInput.Tape[i] = <<>>

\* The tape 1 0 was handed over with a table that mentions 0 but not 1: the
\* canonical tape is returned with an empty string on its first square, the
\* canonical machine has moved, and its tape, translated, has lost the 1
C35_Witness ==
    /\ Len(history) > 0
    /\ input.Tape = <<sym1, sym0>>
    /\ sym1 \in Range(input.PossibleSymbols)
    /\ sym0 \in DOMAIN InternedSymbols
    /\ sym1 \notin DOMAIN InternedSymbols
    /\ stdTable.MachineInput.Tape = << <<>>, InternedSymbols[sym0] >>
    /\ \E i \in DOMAIN stdMachine.tape : stdMachine.tape[i] = <<>>
    /\ ~AllTranslatable(stdMachine.tape)
    /\ Len(TranslateTape(stdTable.SymbolMap, stdMachine.tape)) < Len(Concat(m.tape))

-----------------------------------------------------------------------------
(* The complete configuration of a machine *)

\* The squares of the tape in order with the name of the current
\* m-configuration put in after the first k of them
NameAfter(mc, k) ==
    Concat(SubSeq(mc.tape, 1, k)) \o mc.currentMConfigurationName
    \o Concat(SubSeq(mc.tape, k + 1, Len(mc.tape)))

\* C36: after any calls of Move and MoveN, CompleteConfiguration gives the
\* symbols of the tape in order with the name of the current m-configuration
\* put in once: before the symbol of the scanned square when that square is
\* on the tape, and after the last symbol when the head is one square past
\* the end
C36_NameOnceAtHead ==
    /\ \E k \in 0..Len(m.tape) : CompleteConfiguration(m) = NameAfter(m, k)
    /\ m.scannedSquare \in 0..Len(m.tape)
          => CompleteConfiguration(m) = NameAfter(m, m.scannedSquare)

\* C36, as the code has it: the same while the head is on the tape or one
\* square past its end; when the last operation of a move has taken the head
\* off the left end, CompleteConfiguration gives the symbols of the tape
\* without the name
C36_NameAtHeadUnlessLeftOfTape ==
    /\ m.scannedSquare \in -1..Len(m.tape)
    /\ m.scannedSquare \in 0..Len(m.tape)
          => CompleteConfiguration(m) = NameAfter(m, m.scannedSquare)
    /\ m.scannedSquare = -1 => CompleteConfiguration(m) = TapeString(m)

\* A move that ended with L on the first square has left the head left of
\* the tape, and the complete configuration is the tape alone, the name of
\* the m-configuration nowhere in it
C36_Witness ==
    /\ Len(history) > 0
    /\ ~m.halted
    /\ m.scannedSquare = -1
    /\ Len(m.tape) > 0
    /\ Len(m.currentMConfigurationName) > 0
    /\ CompleteConfiguration(m) = TapeString(m)
    /\ Len(CompleteConfiguration(m)) = Len(m.tape)

-----------------------------------------------------------------------------
(* The machine that decides whether a Standard Description is well defined: *)
(* its abbreviated table is compiled, a machine is built from the compiled  *)
(* table with the description on alternate squares of the tape, the machine *)
(* is moved until it halts, and the decoder is asked about the Description  *)
(* Number of the same description                                           *)

possibleSymbolsForWellDefinedMachine ==
    << <<"A">>, <<"C">>, <<"D">>, <<"L">>, <<"R">>, <<"N">>, <<";">>, <<"s">>, <<"u">> >>

\* The machine starts by looking for the semicolon of the first record
wellDefined ==
    <<  MConfiguration(<<"b">>, <<<<"*">>, <<" ">>>>, <<>>,
                      <<"c", "h", "e", "c", "k", "S", "e", "m", "i", "c", "o", "l", "o", "n">>) >>

\* The description is well defined: s is to be printed
satisfactory ==
    <<  MConfiguration(<<"s", "a", "t", "i", "s", "f", "a", "c", "t", "o", "r", "y">>, <<<<"*">>, <<" ">>>>, <<>>,
                      <<"d", "e", "c", "i", "d", "e", "(", "s", ")">>) >>

\* The description is not well defined: u is to be printed
unsatisfactory ==
    <<  MConfiguration(<<"u", "n", "s", "a", "t", "i", "s", "f", "a", "c", "t", "o", "r", "y">>, <<<<"*">>, <<" ">>>>, <<>>,
                      <<"d", "e", "c", "i", "d", "e", "(", "u", ")">>) >>

\* decide(d) goes to the end of the description, erases it from
\* right to left and prints d where it began
decide ==
    <<  MConfiguration(<<"d", "e", "c", "i", "d", "e", "(", "d", ")">>, <<<<"*">>>>, <<<<"R">>, <<"R">>>>,
                      <<"d", "e", "c", "i", "d", "e", "(", "d", ")">>),
        MConfiguration(<<"d", "e", "c", "i", "d", "e", "(", "d", ")">>, <<<<" ">>>>, <<<<"L">>, <<"L">>>>,
                      <<"d", "e", "c", "i", "d", "e", "1", "(", "d", ")">>),
        MConfiguration(<<"d", "e", "c", "i", "d", "e", "1", "(", "d", ")">>, <<<<"*">>>>, <<<<"E">>, <<"L">>, <<"L">>>>,
                      <<"d", "e", "c", "i", "d", "e", "(", "d", ")">>),
        MConfiguration(<<"d", "e", "c", "i", "d", "e", "1", "(", "d", ")">>, <<<<" ">>>>, <<<<"P", "d">>>>,
                      <<"h", "a", "l", "t">>) >>

\* A record begins with a semicolon; the description ends after a record
checkSemiColon ==
    <<  MConfiguration(<<"c", "h", "e", "c", "k", "S", "e", "m", "i", "c", "o", "l", "o", "n">>, <<<<";">>>>, <<<<"R">>, <<"R">>>>,
                      <<"c", "h", "e", "c", "k", "N", "a", "m", "e">>),
        MConfiguration(<<"c", "h", "e", "c", "k", "S", "e", "m", "i", "c", "o", "l", "o", "n">>, <<<<"!", ";">>>>, <<>>,
                      <<"u", "n", "s", "a", "t", "i", "s", "f", "a", "c", "t", "o", "r", "y">>),
        MConfiguration(<<"c", "h", "e", "c", "k", "S", "e", "m", "i", "c", "o", "l", "o", "n">>, <<<<" ">>>>, <<<<"L">>, <<"L">>>>,
                      <<"c", "h", "e", "c", "k", "S", "e", "m", "i", "c", "o", "l", "o", "n", "1">>),
        MConfiguration(<<"c", "h", "e", "c", "k", "S", "e", "m", "i", "c", "o", "l", "o", "n", "1">>, <<<<" ">>>>, <<>>,
                      <<"u", "n", "s", "a", "t", "i", "s", "f", "a", "c", "t", "o", "r", "y">>),
        MConfiguration(<<"c", "h", "e", "c", "k", "S", "e", "m", "i", "c", "o", "l", "o", "n", "1">>, <<<<"*">>>>, <<<<"R">>, <<"R">>>>,
                      <<"s", "a", "t", "i", "s", "f", "a", "c", "t", "o", "r", "y">>) >>

\* The m-configuration: D followed by As
checkName ==
    <<  MConfiguration(<<"c", "h", "e", "c", "k", "N", "a", "m", "e">>, <<<<"D">>>>, <<<<"R">>, <<"R">>>>,
                      <<"c", "h", "e", "c", "k", "N", "a", "m", "e", "1">>),
        MConfiguration(<<"c", "h", "e", "c", "k", "N", "a", "m", "e">>, <<<<"!", "D">>, <<" ">>>>, <<>>,
                      <<"u", "n", "s", "a", "t", "i", "s", "f", "a", "c", "t", "o", "r", "y">>),
        MConfiguration(<<"c", "h", "e", "c", "k", "N", "a", "m", "e", "1">>, <<<<"A">>>>, <<<<"R">>, <<"R">>>>,
                      <<"c", "h", "e", "c", "k", "N", "a", "m", "e", "1">>),
        MConfiguration(<<"c", "h", "e", "c", "k", "N", "a", "m", "e", "1">>, <<<<"!", "A">>, <<" ">>>>, <<>>,
                      <<"c", "h", "e", "c", "k", "S", "y", "m", "b", "o", "l">>) >>

\* The scanned symbol: D followed by Cs
checkSymbol ==
    <<  MConfiguration(<<"c", "h", "e", "c", "k", "S", "y", "m", "b", "o", "l">>, <<<<"D">>>>, <<<<"R">>, <<"R">>>>,
                      <<"c", "h", "e", "c", "k", "S", "y", "m", "b", "o", "l", "1">>),
        MConfiguration(<<"c", "h", "e", "c", "k", "S", "y", "m", "b", "o", "l">>, <<<<"!", "D">>, <<" ">>>>, <<>>,
                      <<"u", "n", "s", "a", "t", "i", "s", "f", "a", "c", "t", "o", "r", "y">>),
        MConfiguration(<<"c", "h", "e", "c", "k", "S", "y", "m", "b", "o", "l", "1">>, <<<<"C">>>>, <<<<"R">>, <<"R">>>>,
                      <<"c", "h", "e", "c", "k", "S", "y", "m", "b", "o", "l", "1">>),
        MConfiguration(<<"c", "h", "e", "c", "k", "S", "y", "m", "b", "o", "l", "1">>, <<<<"!", "C">>, <<" ">>>>, <<>>,
                      <<"c", "h", "e", "c", "k", "P", "r", "i", "n", "t", "O", "p">>) >>

\* The symbol printed: D followed by Cs
checkPrintOp ==
    <<  MConfiguration(<<"c", "h", "e", "c", "k", "P", "r", "i", "n", "t", "O", "p">>, <<<<"D">>>>, <<<<"R">>, <<"R">>>>,
                      <<"c", "h", "e", "c", "k", "P", "r", "i", "n", "t", "O", "p", "1">>),
        MConfiguration(<<"c", "h", "e", "c", "k", "P", "r", "i", "n", "t", "O", "p">>, <<<<"!", "D">>, <<" ">>>>, <<>>,
                      <<"u", "n", "s", "a", "t", "i", "s", "f", "a", "c", "t", "o", "r", "y">>),
        MConfiguration(<<"c", "h", "e", "c", "k", "P", "r", "i", "n", "t", "O", "p", "1">>, <<<<"C">>>>, <<<<"R">>, <<"R">>>>,
                      <<"c", "h", "e", "c", "k", "P", "r", "i", "n", "t", "O", "p", "1">>),
        MConfiguration(<<"c", "h", "e", "c", "k", "P", "r", "i", "n", "t", "O", "p", "1">>, <<<<"!", "C">>, <<" ">>>>, <<>>,
                      <<"c", "h", "e", "c", "k", "M", "o", "v", "e", "O", "p">>) >>

\* The move: L, R or N
checkMoveOp ==
    <<  MConfiguration(<<"c", "h", "e", "c", "k", "M", "o", "v", "e", "O", "p">>, <<<<"L">>, <<"R">>, <<"N">>>>, <<<<"R">>, <<"R">>>>,
                      <<"c", "h", "e", "c", "k", "F", "i", "n", "a", "l", "M", "C", "o", "n", "f", "i", "g">>),
        MConfiguration(<<"c", "h", "e", "c", "k", "M", "o", "v", "e", "O", "p">>, <<<<"!", "L">>, <<"!", "R">>, <<"!", "N">>, <<" ">>>>, <<>>,
                      <<"u", "n", "s", "a", "t", "i", "s", "f", "a", "c", "t", "o", "r", "y">>) >>

\* The final m-configuration: D followed by As
checkFinalMConfig ==
    <<  MConfiguration(<<"c", "h", "e", "c", "k", "F", "i", "n", "a", "l", "M", "C", "o", "n", "f", "i", "g">>, <<<<"D">>>>, <<<<"R">>, <<"R">>>>,
                      <<"c", "h", "e", "c", "k", "F", "i", "n", "a", "l", "M", "C", "o", "n", "f", "i", "g", "1">>),
        MConfiguration(<<"c", "h", "e", "c", "k", "F", "i", "n", "a", "l", "M", "C", "o", "n", "f", "i", "g">>, <<<<"!", "D">>, <<" ">>>>, <<>>,
                      <<"u", "n", "s", "a", "t", "i", "s", "f", "a", "c", "t", "o", "r", "y">>),
        MConfiguration(<<"c", "h", "e", "c", "k", "F", "i", "n", "a", "l", "M", "C", "o", "n", "f", "i", "g", "1">>, <<<<"A">>>>, <<<<"R">>, <<"R">>>>,
                      <<"c", "h", "e", "c", "k", "F", "i", "n", "a", "l", "M", "C", "o", "n", "f", "i", "g", "1">>),
        MConfiguration(<<"c", "h", "e", "c", "k", "F", "i", "n", "a", "l", "M", "C", "o", "n", "f", "i", "g", "1">>, <<<<"!", "A">>, <<" ">>>>, <<>>,
                      <<"c", "h", "e", "c", "k", "S", "e", "m", "i", "c", "o", "l", "o", "n">>) >>

\* The table TestWellDefinedness hands to NewAbbreviatedTable
wellDefinedMConfigurations ==
    wellDefined \o satisfactory \o unsatisfactory \o decide \o checkSemiColon
    \o checkName \o checkSymbol \o checkPrintOp \o checkMoveOp \o checkFinalMConfig

\* strings.Split(s, "") of a description written with a space between its
\* characters: the characters on alternate squares, blanks between them
SplitSpaced(sd) ==
    [i \in 1..(IF Len(sd) = 0 THEN 0 ELSE 2 * Len(sd) - 1) |->
        IF i % 2 = 1 THEN <<sd[(i + 1) \div 2]>> ELSE <<" ">>]

\* The description that is written on such a tape
Unspaced(tape) == [i \in 1..((Len(tape) + 1) \div 2) |-> tape[2 * i - 1][1]]

\* One record of a description: ; D A^n D C^s D C^p move D A^f
SdRecord(n, s, p, mv, f) ==
    <<semicolon>> \o <<sdD>> \o Repeat(sdA, n) \o <<sdD>> \o Repeat(sdC, s)
                  \o <<sdD>> \o Repeat(sdC, p) \o <<mv>> \o <<sdD>> \o Repeat(sdA, f)

MaxRecordRun == 2

SdRecords ==
    { SdRecord(n, s, p, mv, f) :
        n \in 0..MaxRecordRun, s \in {0, 1}, p \in {0, MaxRecordRun},
        mv \in {"L", "R", "N"}, f \in {0, 1} }

SdShortRecords == { SdRecord(1, 0, 0, "R", 1), SdRecord(0, 1, 0, "L", 0) }

\* Descriptions that are not well defined: a record cut short, a record with
\* a character changed, a record after and before a stray character, and the
\* empty description
SdDamaged ==
    { SubSeq(r, 1, k) : r \in SdShortRecords, k \in 1..5 }
    \cup LET record == SdRecord(1, 1, 1, "R", 1)
         IN { [record EXCEPT ![ic[1]] = ic[2]] :
                ic \in { p \in (1..Len(record)) \X {"A", "D", "N", ";"} :
                           record[p[1]] # p[2] } }
    \cup { <<c>> \o SdRecord(1, 0, 0, "L", 1) : c \in {"A", "D", ";"} }
    \cup { SdRecord(1, 0, 1, "N", 1) \o <<c>> : c \in {"C", "D", "R", ";"} }
    \cup { <<>> }

\* The two descriptions of TestWellDefinedness
testDescriptions ==
    { <<";", "D", "A", "D", "A", "D", "A", "D">>,
      <<";", "D", "A", "D", "D", "C", "R", "D", "A">> }

Descriptions ==
    SdRecords \cup { r1 \o r2 : r1, r2 \in SdShortRecords } \cup SdDamaged
    \cup testDescriptions

MaxWellMoves == 80

WellInit ==
    /\ \E sd \in Descriptions :
          /\ input = MachineInput(wellDefinedMConfigurations, SplitSpaced(sd), <<"b">>,
                                  possibleSymbolsForWellDefinedMachine, <<>>)
          /\ digits = ToDescriptionNumber(sd)
    /\ compiler = NewAbbreviatedTableStruct
    /\ stack = <<>>
    /\ cursor = 1
    /\ compiled = <<>>
    /\ m = <<>> /\ history = <<>> /\ log = <<>>
    /\ stdTable = <<>> /\ stdMachine = <<>> /\ decoded = <<>> /\ decMachine = <<>>
    /\ reencoded = <<>>
    /\ argument = <<>> /\ result = <<>> /\ backing = <<>> /\ peers = <<>> /\ beaver = <<>>

\* toMachineInput at its end, for a table of more rows than maxInsertion: the
\* rows are sorted by the number of their name, and the order the sort leaves
\* among the rows of one name is not specified. The rows are set down in
\* the order they were saved in, and the order among the rows of the name the
\* machine is in is chosen at every move (WellMove)
WellFinish ==
    /\ AtEnd
    /\ LET named == IF Len(input.StartingMConfiguration) # 0
                    THEN NewAbbreviatedName(compiler, input.StartingMConfiguration, <<>>)
                    ELSE [at |-> compiler, v |-> <<>>]
           rows == InsertionSorted(named.at.newMConfigurations,
                                   NameNumbers(named.at.newMConfigurations))
       IN /\ compiler' = [named.at EXCEPT !.newMConfigurations = rows]
          /\ compiled' = MachineInput(rows, input.Tape, named.v,
                                      input.PossibleSymbols, input.NoneSymbol)
    /\ UNCHANGED <<input, cursor, stack, Elsewhere>>

\* The rows with the rows of one name set down in the order `group`
Regrouped(rows, name, group) ==
    [i \in 1..Len(rows) |->
        IF rows[i].Name = name
        THEN group[Cardinality({ j \in 1..i : rows[j].Name = name })]
        ELSE rows[i]]

\* The orders the sort may have left the rows of one name in
OrdersLeftBySort(rows, name) ==
    IF Len(rows) <= maxInsertion
    THEN { SelectSeq(rows, LAMBDA r : r.Name = name) }
    ELSE GroupOrders(SelectSeq(rows, LAMBDA r : r.Name = name))

\* Move of the machine of the compiled table
WellMove ==
    /\ m # <<>>
    /\ ~m.halted
    /\ Len(history) < MaxWellMoves
    /\ \E group \in OrdersLeftBySort(m.mConfigurations, m.currentMConfigurationName) :
          LET sorted == [m EXCEPT !.mConfigurations =
                            Regrouped(m.mConfigurations, m.currentMConfigurationName, group)]
          IN m' = [Move(sorted) EXCEPT !.mConfigurations = m.mConfigurations]
    /\ history' = Append(history, [call |-> "Move", n |-> 1, ret |-> 0])
    /\ UNCHANGED <<input, log, stdTable, stdMachine, decoded, decMachine, digits, reencoded,
                   Compilation, Apart>>

\* NewMachineFromDescriptionNumber for the Description Number of the
\* description, once the machine has halted
WellDecode ==
    /\ m # <<>>
    /\ m.halted
    /\ decoded = <<>>
    /\ decoded' = NewMachineFromDescriptionNumber(digits)
    /\ UNCHANGED <<input, m, history, log, stdTable, stdMachine, decMachine, digits,
                   reencoded, Compilation, Apart>>

WellNext ==
    \/ SkipMFunction \/ InterpretPlain \/ Reuse \/ Descend \/ Return \/ WellFinish
    \/ StartMachine \/ WellMove \/ WellDecode

SpecWell == WellInit /\ [][WellNext]_vars

\* The machine of the compiled table has halted
WellHalted == m # <<>> /\ m.halted

\* The first square of the tape
Verdict == TapeAt(m.tape, 0)

\* The description the machine was started on
Description == Unspaced(input.Tape)

\* The decoder has answered, and it accepted the Description Number
DecoderAsked == decoded # <<>>

DecoderAccepts == ~decoded.err

\* A description of one or more records ; D A* D C* D C* (L|R|N) D A*, read
\* from its i-th character on, `part` being the part of the record it is in:
\* 0 before the semicolon, 1 before the D of the name, 2 in the name, 3 in
\* the symbol, 4 in the symbol printed, 5 after the move, 6 in the final name
RECURSIVE SdRecordsFrom(_, _, _)
SdRecordsFrom(sd, i, part) ==
    IF i > Len(sd) THEN part = 6
    ELSE CASE part = 0 -> sd[i] = semicolon /\ SdRecordsFrom(sd, i + 1, 1)
           [] part = 1 -> sd[i] = sdD /\ SdRecordsFrom(sd, i + 1, 2)
           [] part = 2 -> \/ sd[i] = sdA /\ SdRecordsFrom(sd, i + 1, 2)
                          \/ sd[i] = sdD /\ SdRecordsFrom(sd, i + 1, 3)
           [] part = 3 -> \/ sd[i] = sdC /\ SdRecordsFrom(sd, i + 1, 3)
                          \/ sd[i] = sdD /\ SdRecordsFrom(sd, i + 1, 4)
           [] part = 4 -> \/ sd[i] = sdC /\ SdRecordsFrom(sd, i + 1, 4)
                          \/ sd[i] \in {"L", "R", "N"} /\ SdRecordsFrom(sd, i + 1, 5)
           [] part = 5 -> sd[i] = sdD /\ SdRecordsFrom(sd, i + 1, 6)
           [] OTHER -> \/ sd[i] = sdA /\ SdRecordsFrom(sd, i + 1, 6)
                       \/ sd[i] = semicolon /\ SdRecordsFrom(sd, i + 1, 1)

\* Records in which a name may be the D alone
RecordsWithBareNames(sd) == SdRecordsFrom(sd, 1, 0)

\* The machine halts before the moves run out
WellHalts == (m # <<>> /\ Len(history) = MaxWellMoves) => m.halted

\* C37: started on a tape that holds a string over A, C, D, L, R, N, ; one
\* character on every other square from square 0, the well-definedness
\* machine halts, and the first square of its final tape is s exactly when
\* NewMachineFromDescriptionNumber accepts the Description Number of the
\* string, and u otherwise
C37_AgreesWithDecoder ==
    /\ WellHalts
    /\ (WellHalted /\ DecoderAsked) =>
          Verdict = (IF DecoderAccepts THEN <<"s">> ELSE <<"u">>)

\* C37, as the code has it: the machine halts with s or u; it prints s
\* exactly for the descriptions made of records in which the name and the
\* final name may be the D alone, and these include every description the
\* decoder accepts
C37_AgreesUpToBareNames ==
    /\ WellHalts
    /\ (WellHalted /\ DecoderAsked) =>
          /\ Verdict = (IF RecordsWithBareNames(Description) THEN <<"s">> ELSE <<"u">>)
          /\ DecoderAccepts => Verdict = <<"s">>

\* The machine has printed s for the one record ;DDDRD, whose names have no
\* A, and the decoder has refused its Description Number 733353
C37_Witness ==
    /\ WellHalted
    /\ DecoderAsked
    /\ Description = <<";", "D", "D", "D", "R", "D">>
    /\ digits = <<"7", "3", "3", "3", "5", "3">>
    /\ Verdict = <<"s">>
    /\ ~DecoderAccepts

-----------------------------------------------------------------------------
(* The order of the rows NewAbbreviatedTable returns for one m-configuration *)

\* The rows of the macro table that define the m-function of a signature, in
\* the order of the table
DefinitionsInOrder(signature) ==
    SelectSeq([i \in 1..Len(input.MConfigurations) |-> i],
              LAMBDA i : i \in DefinitionsOf(signature))

\* The rows a resolved invocation is to have, as the definition row and the
\* binding each comes from: the definition rows in the order of the table,
\* and a row that reads the scanned symbol once for every symbol of
\* PossibleSymbols, in their order, and then for the blank
RowsDefined(signature) ==
    LET order == DefinitionsInOrder(signature)
        values == Append(input.PossibleSymbols, none)
    IN Concat([k \in 1..Len(order) |->
                 LET row == input.MConfigurations[order[k]]
                 IN IF ReadsSymbol(row)
                    THEN [j \in 1..Len(values) |->
                            [d |-> order[k],
                             binding |-> BoundWith(row, signature, row.Symbols[1], values[j])]]
                    ELSE << [d |-> order[k], binding |-> BoundBy(row, signature)] >>])

\* The rows returned for a resolved invocation, in the order they have in the
\* table returned
RowsEmitted(signature) ==
    SelectSeq(EmittedRows, LAMBDA r : r.Name = PlainNameOf(signature))

\* An emitted row is the row of a definition under a binding, by its symbols
\* and its final m-configuration
IsRowDefined(emitted, defined) ==
    FinalAgrees(emitted, input.MConfigurations[defined.d], defined.binding)

InDefinedOrder(signature) ==
    LET emitted == RowsEmitted(signature)
        defined == RowsDefined(signature)
    IN /\ Len(emitted) = Len(defined)
       /\ \A k \in 1..Len(emitted) : IsRowDefined(emitted[k], defined[k])

InSomeOrder(signature) ==
    LET emitted == RowsEmitted(signature)
        defined == RowsDefined(signature)
    IN /\ Len(emitted) = Len(defined)
       /\ \A k \in 1..Len(defined) :
             \E j \in 1..Len(emitted) : IsRowDefined(emitted[j], defined[k])

\* The rows defined for a signature that accept the scanned symbol
AcceptingDefined(mc, signature, symbol) ==
    LET defined == RowsDefined(signature)
    IN { k \in 1..Len(defined) :
           RowAccepts(mc,
                      [Symbols |-> SymbolsBound(input.MConfigurations[defined[k].d].Symbols,
                                                defined[k].binding)],
                      symbol) }

\* The move the compiled machine has made applied, of the rows defined for
\* its m-configuration that accept the scanned symbol, the one defined first
AppliedFirstDefined ==
    LET rec == log[1]
    IN \A signature \in Invocations :
          (/\ signature \in DOMAIN compiler.newMConfigurationNames
           /\ PlainNameOf(signature) = rec.before.currentMConfigurationName
           /\ AcceptingDefined(rec.at, signature, rec.scanned) # {}) =>
             LET accepting == AcceptingDefined(rec.at, signature, rec.scanned)
                 first == CHOOSE k \in accepting : \A other \in accepting : k <= other
             IN /\ rec.row # 0
                /\ IsRowDefined(rec.at.mConfigurations[rec.row], RowsDefined(signature)[first])

Moved == m # <<>> /\ Len(log) = 1 /\ log[1].ran

\* C38: in the table NewAbbreviatedTable returns, the rows of one compiled
\* m-configuration are in the order of their definition rows in the macro
\* table, a row that reads the scanned symbol giving its rows in the order of
\* PossibleSymbols with the blank last; so of two rows of an m-configuration
\* that accept the scanned symbol the compiled machine applies the one
\* defined first
C38_RowsInDefinedOrder ==
    /\ Returned => \A signature \in Invocations : InDefinedOrder(signature)
    /\ Moved => AppliedFirstDefined

\* C38, as the code has it: the same when no more than maxInsertion rows are
\* returned; of a longer table the rows of one m-configuration are the rows
\* defined, in an order that is not specified
C38_RowsInDefinedOrderUpToMaxInsertion ==
    /\ Returned =>
          \A signature \in Invocations :
             IF Len(EmittedRows) <= maxInsertion
             THEN InDefinedOrder(signature)
             ELSE InSomeOrder(signature)
    /\ (Moved /\ Len(m.mConfigurations) <= maxInsertion) => AppliedFirstDefined

\* The thirteen rows of twoRowsForBlank have been returned with the second
\* row of b before the first, and the machine, started on the blank tape in
\* b, has printed 1 with the second row
C38_Witness ==
    /\ Compiled
    /\ input.MConfigurations = twoRowsForBlank
    /\ Len(EmittedRows) = 13
    /\ RowsEmitted(nameB)[1].Symbols = << <<" ">>, <<"*">> >>
    /\ RowsEmitted(nameB)[2].Symbols = << <<" ">> >>
    /\ Moved
    /\ Len(history) = 1
    /\ log[1].scanned = none
    /\ m.tape = << <<"1">> >>

====
